---- MODULE Spec2Model ----
(***************************************************************************)
(* Model of the daily investment-committee pipeline:                       *)
(*   committee/core/snapshot_builder.py  fallback resolvers, status map    *)
(*   committee/core/database.py          per-topic upserts, rolling sums   *)
(*   committee/core/pipeline.py          DailyPipeline.run                 *)
(*   committee/agents/chair_stub.py      ChairStub.run                     *)
(*   committee/core/validators.py        output validator                  *)
(*                                                                         *)
(* Conventions.  Python's None is the empty tuple << >> for values (a      *)
(* present value v is <<v>>) and the token NoReason for reason strings;    *)
(* "" is the empty Python string.  Floats are modelled by integers.        *)
(***************************************************************************)
EXTENDS Integers, Sequences, FiniteSets, TLC

VARIABLES
    rcall,      \* the resolver call under test: function name and fetch outcomes
    rret,       \* what that call produced: a returned pair or an escaped exception
    market_flow_daily,  \* table market_flow_daily: date -> row, all measured columns nullable
    roll_call,  \* the rolling-sum query under test: column and window
    roll_ret,   \* what calculate_rolling_sum produced
    stances,    \* the stance list handed to the chair
    chair,      \* what ChairStub.run produced for it
    guidance,   \* a guidance list handed to the validator
    guidance_ok, \* whether _assert_ops_guidance accepted it
    pc,         \* where DailyPipeline.run stands
    run,        \* the run's inputs: date, agent ids, what each source does today
    built,      \* build_snapshot_real's locals once every field is resolved
    _LAST_STATUS, \* the module-level source status map
    snapshot,   \* the Snapshot the builder returned
    status,     \* the copy of the status map the run took
    market_daily,    \* table market_daily: date -> row
    daily_macro,     \* table daily_macro
    monthly_macro,   \* table monthly_macro
    quarterly_macro, \* table quarterly_macro
    db_errors,  \* contexts _log_db_error has printed in this run
    run_stances, \* run_pre_analysis's list
    committee_result, \* run_committee's result
    report,     \* build_report's Report
    delivered,  \* files written under the output directory
    error,      \* the exception that left DailyPipeline.run, with its stage
    vcall,      \* the outputs handed to validate_pipeline
    vret,       \* what validate_pipeline did with them
    acall,      \* the LLM agent call under test: agent, backend, key, generator answers
    aret,       \* what LLMPreAnalysisAgent.run produced
    trace,      \* the events written to the LLM trace
    build_pc,   \* where build_snapshot_real stands in the current acquisition run
    build_no,   \* how many acquisition runs have started in this process
    build_status, \* build_snapshot_real's local status dict
    origin,     \* for each key of _LAST_STATUS, the run that wrote its entry
    prev_status, \* the last map a run had published when the current run started
    db,         \* the SQLite file: table name -> columns and rows
    init_pc,    \* the statement init_db executes next
    init_i,     \* position in init_db's current column loop
    init_log,   \* db_schema_migration_failed lines printed by the current init_db
    db_before,  \* the tables as they were when the current init_db opened them
    init_count, \* how many init_db calls have committed
    first_clean, \* whether the first init_db on this database printed no failure
    rebuilds,   \* how many times monthly_macro has been rebuilt
    committed,  \* the committed rows of the per-topic table the upserts write, in rowid order
    conn,       \* the open connection's view of that table, None when no connection is open
    upsert_call, \* the upsert under way or last made: function, row, the table before it
    upsert_pc   \* where that upsert stands

resolverVars == <<rcall, rret>>

dbVars == <<market_flow_daily, roll_call, roll_ret>>

chairVars == <<stances, chair, guidance, guidance_ok>>

pipeVars == <<pc, run, built, _LAST_STATUS, snapshot, status, market_daily, daily_macro,
              monthly_macro, quarterly_macro, db_errors, run_stances, committee_result,
              report, delivered, error>>

validatorVars == <<vcall, vret>>

agentVars == <<acall, aret, trace>>

statusVars == <<build_pc, build_no, build_status, origin, prev_status>>

migrationVars == <<db, init_pc, init_i, init_log, db_before, init_count, first_clean,
                   rebuilds>>

\* the pipeline's variables other than the source status map
pipeRestVars == <<pc, run, built, snapshot, status, market_daily, daily_macro,
                  monthly_macro, quarterly_macro, db_errors, run_stances,
                  committee_result, report, delivered, error>>

storeVars == <<committed, conn, upsert_call, upsert_pc>>

laterVars == <<validatorVars, agentVars, statusVars, migrationVars, storeVars>>

vars == <<rcall, rret, market_flow_daily, roll_call, roll_ret, stances, chair,
          guidance, guidance_ok, pc, run, built, _LAST_STATUS, snapshot, status,
          market_daily, daily_macro, monthly_macro, quarterly_macro, db_errors,
          run_stances, committee_result, report, delivered, error, laterVars>>

-----------------------------------------------------------------------------
(* Optional values and reasons *)

None == << >>

Some(v) == <<v>>

NoReason == "<None>"

\* Python truthiness of a reason string: `reason or "..."`
Truthy(r) == r # NoReason /\ r # ""

\* `a or b` on reason strings
OrElse(a, b) == IF Truthy(a) THEN a ELSE b

-----------------------------------------------------------------------------
(* Fetch outcomes: what calling a provider method does. *)

Returned(v, r) == [kind |-> "return", value |-> v, reason |-> r]

Raised(msg) == [kind |-> "raise", value |-> None, reason |-> msg]

\* FallbackProvider: always-available defaults
FallbackValue == Returned(Some(0), "fallback used")

FallbackFlows ==
    Returned(Some([foreign_net |-> 0, institution_net |-> 0, retail_net |-> 0]),
             "fallback used")

\* float(fallback_value or 0.0)
ValueOrZero(v) == IF v # None /\ v[1] # 0 THEN v[1] ELSE 0

\* faulty variant of ExcReason: the default's reason wins over the primary's message
ExcReasonDefaultFirst(msg, fallback_reason) ==
    IF Truthy(fallback_reason) THEN fallback_reason
    ELSE IF msg # "" THEN msg ELSE "unavailable"

\* str(exc) if str(exc) else (fallback_reason or "unavailable")
ExcReason(msg, fallback_reason) ==
    IF msg # "" THEN msg ELSE OrElse(fallback_reason, "unavailable")

\* faulty variant of _safe_value: `if not value` instead of `if value is None`, so a
\* genuine 0.0 counts as absent
_safe_value_falsy(p, d) ==
    IF p.kind = "return" /\ p.value # None /\ p.value # Some(0)
    THEN Returned(Some(p.value[1]), NoReason)
    ELSE LET msg == IF p.kind = "raise" THEN p.reason
                    ELSE OrElse(p.reason, "unavailable")
         IN  IF d.kind = "raise"
             THEN Raised(d.reason)
             ELSE Returned(Some(ValueOrZero(d.value)), ExcReason(msg, d.reason))

\* _safe_value(fetcher, fallback_fetcher), p and d being what the two fetchers do
_safe_value(p, d) ==
    IF p.kind = "return" /\ p.value # None
    THEN Returned(Some(p.value[1]), NoReason)
    ELSE LET msg == IF p.kind = "raise" THEN p.reason
                    ELSE OrElse(p.reason, "unavailable")
         IN  IF d.kind = "raise"
             THEN Raised(d.reason)
             ELSE Returned(Some(ValueOrZero(d.value)), ExcReason(msg, d.reason))

FlowKeys == {"foreign_net", "institution_net", "retail_net"}

\* float(data.get(key, 0.0))
FlowGet(data, key) == IF key \in DOMAIN data THEN data[key] ELSE 0

FlowTotals(data) == [k \in FlowKeys |-> FlowGet(data, k)]

\* _safe_flows(provider, fallback): p = provider.get_flows(), d = fallback.get_flows()
_safe_flows(p, d) ==
    LET data == IF p.kind = "return" /\ p.value # None THEN p.value[1] ELSE << >>
    IN  IF p.kind = "return" /\ DOMAIN data # {}
        THEN Returned(Some(FlowTotals(data)), NoReason)
        ELSE LET msg == IF p.kind = "raise" THEN p.reason
                        ELSE OrElse(p.reason, "unavailable")
                 fdata == IF d.value # None THEN d.value[1] ELSE << >>
             IN  IF d.kind = "raise"
                 THEN Raised(d.reason)
                 ELSE Returned(Some(FlowTotals(fdata)), ExcReason(msg, d.reason))

MinHeadlines == 5

HeadlineLimit == 50

Take(s, n) == IF Len(s) <= n THEN s ELSE SubSeq(s, 1, n)

\* faulty variant of _safe_headlines: any non-empty list passes
_safe_headlines_nonempty(p) ==
    IF p.kind = "raise"
    THEN Returned(Some(<< >>), IF p.reason # "" THEN p.reason ELSE "unavailable")
    ELSE LET headlines == IF p.value # None THEN p.value[1] ELSE << >>
         IN  IF Len(headlines) < 1
             THEN Returned(Some(<< >>), OrElse(p.reason, "insufficient headlines"))
             ELSE Returned(Some(Take(headlines, HeadlineLimit)), NoReason)

\* _safe_headlines(provider): p = provider.get_headlines(limit=50)
_safe_headlines(p) ==
    IF p.kind = "raise"
    THEN Returned(Some(<< >>), IF p.reason # "" THEN p.reason ELSE "unavailable")
    ELSE LET headlines == IF p.value # None THEN p.value[1] ELSE << >>
         IN  IF Len(headlines) < MinHeadlines
             THEN Returned(Some(<< >>), OrElse(p.reason, "insufficient headlines"))
             ELSE Returned(Some(Take(headlines, HeadlineLimit)), NoReason)

-----------------------------------------------------------------------------
(* Resolver harness: the three resolvers applied to every behaviour of the  *)
(* primary and of the default fetcher.                                      *)

Idle == [fn |-> "idle"]

\* no exception has left the run
NoError == [stage |-> "none", msg |-> NoReason]

PrimaryReasons == {NoReason, "", "http_status_500"}

ExceptionMessages == {"", "timed out"}

DefaultReasons == {NoReason, "fallback used"}

PrimaryValueOutcomes ==
    {Returned(v, r) : v \in {None, Some(0), Some(7)}, r \in PrimaryReasons}
        \cup {Raised(m) : m \in ExceptionMessages}

DefaultValueOutcomes ==
    {Returned(v, r) : v \in {None, Some(0), Some(2)}, r \in DefaultReasons}
        \cup {Raised("default down")}

FlowDicts ==
    { << >>,
      [foreign_net |-> 4],
      [foreign_net |-> 0, institution_net |-> 0, retail_net |-> 0],
      [foreign_net |-> 4, institution_net |-> 0 - 3, retail_net |-> 0 - 1] }

PrimaryFlowOutcomes ==
    {Returned(v, r) : v \in {None} \cup {Some(f) : f \in FlowDicts}, r \in PrimaryReasons}
        \cup {Raised(m) : m \in ExceptionMessages}

DefaultFlowOutcomes ==
    {Returned(v, r) : v \in {None, Some([foreign_net |-> 0, institution_net |-> 0, retail_net |-> 0])},
                      r \in DefaultReasons}
        \cup {Raised("default down")}

\* a list of n headlines; the first one mentions "risk" when risky
Headlines(n, risky) == [i \in 1..n |-> IF risky /\ i = 1 THEN "risk headline" ELSE "headline"]

HeadlineCounts == {0, 3, MinHeadlines - 1, MinHeadlines, 10, 11, HeadlineLimit, HeadlineLimit + 1}

PrimaryHeadlineOutcomes ==
    {Returned(v, r) : v \in {None} \cup {Some(Headlines(n, FALSE)) : n \in HeadlineCounts},
                      r \in PrimaryReasons}
        \cup {Raised(m) : m \in ExceptionMessages}

CallSafeValue(p, d) ==
    /\ rcall' = [fn |-> "_safe_value", p |-> p, d |-> d]
    /\ rret' = _safe_value(p, d)
    /\ UNCHANGED <<dbVars, chairVars, pipeVars, laterVars>>

CallSafeFlows(p, d) ==
    /\ rcall' = [fn |-> "_safe_flows", p |-> p, d |-> d]
    /\ rret' = _safe_flows(p, d)
    /\ UNCHANGED <<dbVars, chairVars, pipeVars, laterVars>>

CallSafeHeadlines(p) ==
    /\ rcall' = [fn |-> "_safe_headlines", p |-> p, d |-> Idle]
    /\ rret' = _safe_headlines(p)
    /\ UNCHANGED <<dbVars, chairVars, pipeVars, laterVars>>

Init ==
    /\ rcall = Idle
    /\ rret = Idle
    /\ market_flow_daily = << >>
    /\ roll_call = Idle
    /\ roll_ret = Idle
    /\ stances = << >>
    /\ chair = Idle
    /\ guidance = << >>
    /\ guidance_ok = "idle"
    /\ pc = "idle"
    /\ run = Idle
    /\ built = Idle
    /\ _LAST_STATUS = << >>
    /\ snapshot = None
    /\ status = << >>
    /\ market_daily = << >>
    /\ daily_macro = << >>
    /\ monthly_macro = << >>
    /\ quarterly_macro = << >>
    /\ db_errors = {}
    /\ run_stances = << >>
    /\ committee_result = None
    /\ report = None
    /\ delivered = {}
    /\ error = NoError
    /\ vcall = Idle
    /\ vret = Idle
    /\ acall = Idle
    /\ aret = Idle
    /\ trace = << >>
    /\ build_pc = "idle"
    /\ build_no = 0
    /\ build_status = << >>
    /\ origin = << >>
    /\ prev_status = << >>
    /\ db = << >>
    /\ init_pc = "unopened"
    /\ init_i = 0
    /\ init_log = {}
    /\ db_before = << >>
    /\ init_count = 0
    /\ first_clean = TRUE
    /\ rebuilds = 0
    /\ committed = << >>
    /\ conn = None
    /\ upsert_call = Idle
    /\ upsert_pc = "idle"

NextResolver ==
    \/ \E p \in PrimaryValueOutcomes, d \in DefaultValueOutcomes : CallSafeValue(p, d)
    \/ \E p \in PrimaryFlowOutcomes, d \in DefaultFlowOutcomes : CallSafeFlows(p, d)
    \/ \E p \in PrimaryHeadlineOutcomes : CallSafeHeadlines(p)

SpecResolver == Init /\ [][NextResolver]_vars

\* the primary fetch failed: it raised, or returned an absent value
PrimaryFailed(p) == p.kind = "raise" \/ p.value = None

C2_NoExceptionEscapes == rret # Idle => rret.kind = "return"

-----------------------------------------------------------------------------
(* Persistence store: market_flow_daily and the rolling aggregator.         *)

MaxDate == 3

MaxN == 3

Dates == 1..MaxDate

RECURSIVE SumOver(_, _)
\* SUM(f[d]) over the dates of a finite set
SumOver(S, f) ==
    IF S = {} THEN 0
    ELSE LET d == CHOOSE x \in S : TRUE IN f[d] + SumOver(S \ {d}, f)

\* INSERT ... ON CONFLICT(date) DO UPDATE SET <every measured column> = excluded.<column>
Upsert(table, date, row) ==
    [d \in DOMAIN table \cup {date} |-> IF d = date THEN row ELSE table[d]]

\* float(x) of a nullable parameter: None if x is None else float(x)
FlowRow(foreign_net, foreign_20d, foreign_60d) ==
    [foreign_net |-> foreign_net, foreign_20d |-> foreign_20d, foreign_60d |-> foreign_60d]

_ALLOWED_FLOW_COLUMNS == {"foreign_net", "foreign_20d", "foreign_60d"}

\* SELECT column FROM market_flow_daily ORDER BY date DESC LIMIT n
LastRows(table, n) == {d \in DOMAIN table : Cardinality({e \in DOMAIN table : e > d}) < n}

\* faulty variant of calculate_rolling_sum: a partial window is summed
calculate_rolling_sum_partial(table, column, n) ==
    IF column \notin _ALLOWED_FLOW_COLUMNS
    THEN Raised("Unsupported column for rolling sum")
    ELSE LET window == LastRows(table, n)
             nonnull == {d \in window : table[d][column] # None}
             cnt == Cardinality(nonnull)
             s == SumOver(nonnull, [d \in nonnull |-> table[d][column][1]])
         IN  IF cnt = 0 THEN Returned(None, NoReason) ELSE Returned(Some(s), NoReason)

\* calculate_rolling_sum(column, n) on a database holding `table`
calculate_rolling_sum(table, column, n) ==
    IF column \notin _ALLOWED_FLOW_COLUMNS
    THEN Raised("Unsupported column for rolling sum")
    ELSE LET window == LastRows(table, n)
             nonnull == {d \in window : table[d][column] # None}
             cnt == Cardinality(nonnull)
             s == SumOver(nonnull, [d \in nonnull |-> table[d][column][1]])
         IN  IF cnt < n THEN Returned(None, NoReason) ELSE Returned(Some(s), NoReason)

FlowValues == {None, Some(0 - 1), Some(0), Some(2)}

RollingPairs == {<<None, None>>, <<Some(5), Some(9)>>}

\* upsert_market_flow_daily(date, foreign_net, foreign_20d, foreign_60d)
UpsertMarketFlowDaily(date, foreign_net, rolling) ==
    /\ market_flow_daily' = Upsert(market_flow_daily, date,
                                   FlowRow(foreign_net, rolling[1], rolling[2]))
    /\ roll_call' = Idle
    /\ roll_ret' = Idle
    /\ UNCHANGED <<resolverVars, chairVars, pipeVars, laterVars>>

CalculateRollingSum(column, n) ==
    /\ roll_call' = [fn |-> "calculate_rolling_sum", column |-> column, n |-> n]
    /\ roll_ret' = calculate_rolling_sum(market_flow_daily, column, n)
    /\ UNCHANGED market_flow_daily
    /\ UNCHANGED <<resolverVars, chairVars, pipeVars, laterVars>>

NextDb ==
    \/ \E date \in Dates, v \in FlowValues, r \in RollingPairs :
           UpsertMarketFlowDaily(date, v, r)
    \/ \E column \in _ALLOWED_FLOW_COLUMNS \cup {"date"}, n \in 1..MaxN :
           CalculateRollingSum(column, n)

SpecDb == Init /\ [][NextDb]_vars

RECURSIVE DatesDesc(_)
\* the dates of a set, most recent first
DatesDesc(S) ==
    IF S = {} THEN << >>
    ELSE LET m == CHOOSE x \in S : \A y \in S : y <= x IN <<m>> \o DatesDesc(S \ {m})

RECURSIVE NonNullCount(_), SeqSum(_)
NonNullCount(vals) ==
    IF vals = << >> THEN 0
    ELSE (IF Head(vals) # None THEN 1 ELSE 0) + NonNullCount(Tail(vals))

SeqSum(vals) == IF vals = << >> THEN 0 ELSE Head(vals)[1] + SeqSum(Tail(vals))

\* the column values of the n most recent rows by date, most recent first
RecentValues(table, column, n) ==
    LET ds == Take(DatesDesc(DOMAIN table), n)
    IN  [i \in 1..Len(ds) |-> table[ds[i]][column]]

\* C6: calculate_rolling_sum(column, N), N > 0, returns None whenever the N most
\* recent rows by date hold fewer than N non-null values of the column (also when the
\* table has fewer than N rows), and otherwise the sum of exactly those N values.
C6_RollingSumOrUnavailable ==
    (roll_call # Idle /\ roll_call.column \in _ALLOWED_FLOW_COLUMNS)
        => LET recent == RecentValues(market_flow_daily, roll_call.column, roll_call.n)
           IN  /\ roll_ret.kind = "return"
               /\ NonNullCount(recent) < roll_call.n => roll_ret.value = None
               /\ NonNullCount(recent) >= roll_call.n => roll_ret.value = Some(SeqSum(recent))

\* a window holding a null among its N most recent rows, with enough older history
\* that a partial sum or a sum over other rows would have been possible
C6_Witness ==
    /\ roll_call # Idle
    /\ roll_call.column = "foreign_net"
    /\ roll_call.n = 2
    /\ DOMAIN market_flow_daily = Dates
    /\ market_flow_daily[MaxDate].foreign_net = None
    /\ market_flow_daily[MaxDate - 1].foreign_net = Some(2)
    /\ roll_ret = Returned(None, NoReason)

-----------------------------------------------------------------------------
(* Schemas: committee/schemas/stance.py, committee/schemas/committee_result.py *)

\* RegimeTag, in enumeration order (also the insertion order of tag_counts)
RegimeTags == <<"RISK_ON", "NEUTRAL", "RISK_OFF">>

AgentNames == {"macro", "flow", "sector", "risk"}

\* sorted() of agent names
AgentsSorted == <<"flow", "macro", "risk", "sector">>

OpsGuidanceLevels == {"OK", "CAUTION", "AVOID"}

\* ShortText: constr(min_length=1, max_length=200)
MaxShortText == 200

\* SentenceText: constr(min_length=1, max_length=300)
MaxSentenceText == 300

\* SourceNames / minority_agents: Field(min_length=1, max_length=5)
MaxSources == 5

\* KeyPoints / Disagreements: Field(min_length=1, max_length=3)
MaxItems == 3

\* OpsGuidanceList: Field(min_length=3, max_length=3)
GuidanceLen == 3

Range(s) == {s[i] : i \in DOMAIN s}

KeyPointValid(kp) ==
    /\ kp.len >= 1 /\ kp.len <= MaxShortText
    /\ Len(kp.sources) >= 1 /\ Len(kp.sources) <= MaxSources

DisagreementValid(d) ==
    /\ Len(d.minority_agents) >= 1 /\ Len(d.minority_agents) <= MaxSources

\* CommitteeResult(...): pydantic validation at construction
CommitteeResultValid(r) ==
    /\ Len(r.consensus) >= 1 /\ Len(r.consensus) <= MaxSentenceText
    /\ Len(r.key_points) >= 1 /\ Len(r.key_points) <= MaxItems
    /\ \A i \in DOMAIN r.key_points : KeyPointValid(r.key_points[i])
    /\ Len(r.disagreements) >= 1 /\ Len(r.disagreements) <= MaxItems
    /\ \A i \in DOMAIN r.disagreements : DisagreementValid(r.disagreements[i])
    /\ Len(r.ops_guidance) = GuidanceLen
    /\ \A i \in DOMAIN r.ops_guidance : r.ops_guidance[i].level \in OpsGuidanceLevels

-----------------------------------------------------------------------------
(* Stance aggregator: committee/agents/chair_stub.py *)

ConsensusNoStances ==
    <<"N", "o", " ", "c", "o", "n", "s", "e", "n", "s", "u", "s", " ", "c",
      "a", "n", " ", "b", "e", " ", "f", "o", "r", "m", "e", "d", " ", "d",
      "u", "e", " ", "t", "o", " ", "m", "i", "s", "s", "i", "n", "g", " ",
      "s", "t", "a", "n", "c", "e", "s", ".">>

\* faulty variant of ConsensusDefensive: the template split in two sentences
ConsensusDefensiveTwoSentences ==
    <<"C", "o", "m", "m", "i", "t", "t", "e", "e", " ", "a", "d", "o", "p",
      "t", "s", " ", "a", " ", "d", "e", "f", "e", "n", "s", "i", "v", "e",
      " ", "p", "o", "s", "t", "u", "r", "e", ".", " ", "R", "e", "d", "u",
      "c", "e", " ", "r", "i", "s", "k", " ", "e", "x", "p", "o", "s", "u",
      "r", "e", ".">>

ConsensusDefensive ==
    <<"C", "o", "m", "m", "i", "t", "t", "e", "e", " ", "a", "d", "o", "p",
      "t", "s", " ", "a", " ", "d", "e", "f", "e", "n", "s", "i", "v", "e",
      " ", "p", "o", "s", "t", "u", "r", "e", " ", "a", "n", "d", " ", "r",
      "e", "d", "u", "c", "e", "s", " ", "r", "i", "s", "k", " ", "e", "x",
      "p", "o", "s", "u", "r", "e", ".">>

ConsensusNeutral ==
    <<"C", "o", "m", "m", "i", "t", "t", "e", "e", " ", "m", "a", "i", "n",
      "t", "a", "i", "n", "s", " ", "a", " ", "n", "e", "u", "t", "r", "a",
      "l", " ", "p", "o", "s", "t", "u", "r", "e", " ", "w", "i", "t", "h",
      " ", "s", "e", "l", "e", "c", "t", "i", "v", "e", " ", "p", "o", "s",
      "i", "t", "i", "o", "n", "i", "n", "g", ".">>

\* sum(consensus.count(ch) for ch in ".!?")
Terminators(text) == Cardinality({i \in DOMAIN text : text[i] \in {".", "!", "?"}})

\* the closing check of ChairStub.run: newline, or more than one terminator, raises
ConsensusIsSingleSentence(text) ==
    /\ "\n" \notin Range(text)
    /\ Terminators(text) <= 1

\* sum(1 for stance in stances if stance.regime_tag == tag)
TagCount(sts, tag) == Cardinality({i \in DOMAIN sts : sts[i].regime_tag = tag})

\* faulty variant of MajorityTag: among the tags of the highest count the last one wins
MajorityTagLast(sts) ==
    IF Len(sts) = 0 THEN None
    ELSE LET i == CHOOSE i \in DOMAIN RegimeTags :
                      /\ \A j \in DOMAIN RegimeTags :
                             TagCount(sts, RegimeTags[j]) <= TagCount(sts, RegimeTags[i])
                      /\ \A j \in (i + 1)..Len(RegimeTags) :
                             TagCount(sts, RegimeTags[j]) < TagCount(sts, RegimeTags[i])
         IN  Some(RegimeTags[i])

\* max(tag_counts, key=tag_counts.get): the first tag, in insertion order, of the
\* highest count; None for the empty list
MajorityTag(sts) ==
    IF Len(sts) = 0 THEN None
    ELSE LET i == CHOOSE i \in DOMAIN RegimeTags :
                      /\ \A j \in DOMAIN RegimeTags :
                             TagCount(sts, RegimeTags[j]) <= TagCount(sts, RegimeTags[i])
                      /\ \A j \in 1..(i - 1) :
                             TagCount(sts, RegimeTags[j]) < TagCount(sts, RegimeTags[i])
         IN  Some(RegimeTags[i])

\* [stance.agent_name.value for stance in stances if stance.regime_tag == tag]
RECURSIVE AgentsWithTag(_, _)
AgentsWithTag(sts, tag) ==
    IF sts = << >> THEN << >>
    ELSE (IF Head(sts).regime_tag = tag THEN <<Head(sts).agent_name>> ELSE << >>)
             \o AgentsWithTag(Tail(sts), tag)

\* xs[:5] or ["unknown"]
FirstFiveOr(xs, dflt) == IF xs = << >> THEN <<dflt>> ELSE Take(xs, MaxSources)

\* faulty variant of PlaceholderNoStances: no minority agent is named
PlaceholderNoAgents ==
    [topic |-> "Regime tags", majority |-> "None", minority |-> "None",
     minority_agents |-> << >>,
     why_it_matters |-> "No stances provided, so no regime disagreement can be assessed."]

PlaceholderNoStances ==
    [topic |-> "Regime tags", majority |-> "None", minority |-> "None",
     minority_agents |-> <<"none">>,
     why_it_matters |-> "No stances provided, so no regime disagreement can be assessed."]

MinorityEntry(sts, majority, tag) ==
    [topic |-> "Regime tags", majority |-> majority, minority |-> tag,
     minority_agents |-> FirstFiveOr(AgentsWithTag(sts, tag), "unknown"),
     why_it_matters |-> "Minority risk regime can change positioning boundaries."]

RECURSIVE MinorityEntriesAllTags(_, _, _)
\* faulty variant of MinorityEntries: the majority tag is not skipped
MinorityEntriesAllTags(sts, majority, tags) ==
    IF tags = << >> THEN << >>
    ELSE (IF TagCount(sts, Head(tags)) > 0
          THEN <<MinorityEntry(sts, majority, Head(tags))>> ELSE << >>)
             \o MinorityEntriesAllTags(sts, majority, Tail(tags))

RECURSIVE MinorityEntries(_, _, _)
\* the loop over tag_counts.items(): one entry per other tag with count > 0
MinorityEntries(sts, majority, tags) ==
    IF tags = << >> THEN << >>
    ELSE (IF Head(tags) # majority /\ TagCount(sts, Head(tags)) > 0
          THEN <<MinorityEntry(sts, majority, Head(tags))>> ELSE << >>)
             \o MinorityEntries(sts, majority, Tail(tags))

\* _build_disagreements(stances, tag_counts, majority_tag)
_build_disagreements(sts, majority_tag) ==
    IF majority_tag = None THEN <<PlaceholderNoStances>>
    ELSE LET majority == majority_tag[1]
             minority_exists == \E i \in DOMAIN RegimeTags :
                                    /\ RegimeTags[i] # majority
                                    /\ TagCount(sts, RegimeTags[i]) > 0
             entries == MinorityEntries(sts, majority, RegimeTags)
         IN  IF entries # << >> THEN entries
             ELSE <<[topic |-> "Regime tags", majority |-> majority,
                     minority |-> IF minority_exists THEN "Minority present" ELSE "None",
                     minority_agents |-> <<"none">>,
                     why_it_matters |-> "No dissenting regime tags are present."]>>

RECURSIVE Dedupe(_)
\* keys of a dict filled with setdefault, in insertion (discovery) order
Dedupe(xs) ==
    IF xs = << >> THEN << >>
    ELSE LET rest == Dedupe(SubSeq(xs, 1, Len(xs) - 1))
             last == xs[Len(xs)]
         IN  IF last \in Range(rest) THEN rest ELSE Append(rest, last)

RECURSIVE AllEvidence(_), AllClaims(_)
AllEvidence(sts) ==
    IF sts = << >> THEN << >> ELSE Head(sts).evidence_ids \o AllEvidence(Tail(sts))

AllClaims(sts) ==
    IF sts = << >> THEN << >> ELSE Head(sts).core_claims \o AllClaims(Tail(sts))

\* set(agents) for one key of evidence_to_agents / claim_to_agents
AgentsCiting(sts, e) ==
    {sts[i].agent_name : i \in {j \in DOMAIN sts : e \in Range(sts[j].evidence_ids)}}

AgentsClaiming(sts, c) ==
    {sts[i].agent_name : i \in {j \in DOMAIN sts : c \in Range(sts[j].core_claims)}}

\* max(d.items(), key=lambda item: len(set(item[1]))): the first key, in insertion
\* order, whose agent set is largest
FirstMax(keys, size(_)) ==
    keys[CHOOSE i \in DOMAIN keys :
             /\ \A j \in DOMAIN keys : size(keys[j]) <= size(keys[i])
             /\ \A j \in 1..(i - 1) : size(keys[j]) < size(keys[i])]

\* sorted(set(agents))[:5]
SortedAgents(S) == Take(SelectSeq(AgentsSorted, LAMBDA a : a \in S), MaxSources)

\* len("Majority regime tag: ") + len(tag) + len(".")
MajorityPoint(sts, majority) ==
    [kind |-> "majority", about |-> majority, len |-> 21 + Len(majority) + 1,
     sources |-> FirstFiveOr(AgentsWithTag(sts, majority), "unknown")]

\* faulty variant of SharedEvidencePoints: the most cited id is reported even when a
\* single agent cites it
SharedEvidencePointsAny(sts) ==
    LET keys == Dedupe(AllEvidence(sts))
        size(e) == Cardinality(AgentsCiting(sts, e))
    IN  IF keys = << >> THEN << >>
        ELSE LET e == FirstMax(keys, size)
             IN  <<[kind |-> "shared_evidence", about |-> e, len |-> 23 + Len(e) + 1,
                    sources |-> SortedAgents(AgentsCiting(sts, e))]>>

\* len("Shared evidence focus: ") + len(evidence) + len(".")
SharedEvidencePoints(sts) ==
    LET keys == Dedupe(AllEvidence(sts))
        size(e) == Cardinality(AgentsCiting(sts, e))
    IN  IF keys = << >> THEN << >>
        ELSE LET e == FirstMax(keys, size)
             IN  IF size(e) >= 2
                 THEN <<[kind |-> "shared_evidence", about |-> e, len |-> 23 + Len(e) + 1,
                         sources |-> SortedAgents(AgentsCiting(sts, e))]>>
                 ELSE << >>

\* len("Shared claim: ") + len(claim)
SharedClaimPoints(sts) ==
    LET keys == Dedupe(AllClaims(sts))
        size(c) == Cardinality(AgentsClaiming(sts, c))
    IN  IF keys = << >> THEN << >>
        ELSE LET c == FirstMax(keys, size)
             IN  IF size(c) >= 2
                 THEN <<[kind |-> "shared_claim", about |-> c.text, len |-> 14 + c.len,
                         sources |-> SortedAgents(AgentsClaiming(sts, c))]>>
                 ELSE << >>

\* _build_key_points(stances, majority_tag), majority_tag never None for a non-empty list
_build_key_points(sts, majority_tag) ==
    IF sts = << >>
    THEN <<[kind |-> "empty", about |-> "No stances provided.", len |-> 20,
            sources |-> <<"none">>]>>
    ELSE Take(<<MajorityPoint(sts, majority_tag[1])>>
                  \o SharedEvidencePoints(sts) \o SharedClaimPoints(sts), MaxItems)

Guidance(ok, caution, avoid) ==
    <<[level |-> "OK", text |-> ok], [level |-> "CAUTION", text |-> caution],
      [level |-> "AVOID", text |-> avoid]>>

GuidanceNoStances ==
    Guidance("Pause until stances are provided.", "Await minimum stance coverage.",
             "Do not act without stances.")

GuidanceDefensive ==
    Guidance("Keep exposure focused on resilience.", "Favor defensive positioning.",
             "Avoid high-beta risk assets.")

GuidanceNeutral ==
    Guidance("Maintain balanced exposure.", "Keep risk limits tight.",
             "Avoid aggressive leverage.")

\* the three-way branch of ChairStub.run: total == 0, risk_off_count > total / 2, else
Posture(sts) ==
    IF Len(sts) = 0 THEN "no_stances"
    ELSE IF 2 * TagCount(sts, "RISK_OFF") > Len(sts) THEN "defensive"
    ELSE "neutral"

ChairDraft(sts) ==
    LET majority_tag == MajorityTag(sts)
        posture == Posture(sts)
    IN  [consensus |-> CASE posture = "no_stances" -> ConsensusNoStances
                         [] posture = "defensive" -> ConsensusDefensive
                         [] OTHER -> ConsensusNeutral,
         key_points |-> IF posture = "no_stances"
                        THEN <<[kind |-> "empty", about |-> "Stance list is empty.",
                                len |-> 21, sources |-> <<"none">>]>>
                        ELSE Take(_build_key_points(sts, majority_tag), MaxItems),
         disagreements |-> IF posture = "no_stances" THEN <<PlaceholderNoStances>>
                           ELSE Take(_build_disagreements(sts, majority_tag), MaxItems),
         ops_guidance |-> CASE posture = "no_stances" -> GuidanceNoStances
                            [] posture = "defensive" -> GuidanceDefensive
                            [] OTHER -> GuidanceNeutral]

\* the tail of ChairStub.run: build the CommitteeResult, check the sentence, return.
\* (The `minority_exists and not result.disagreements` repair cannot fire: a result
\* with no disagreement entry does not pass the schema.)
ChairFinish(draft) ==
    IF ~CommitteeResultValid(draft) THEN Raised("ValidationError")
    ELSE IF ~ConsensusIsSingleSentence(draft.consensus)
    THEN Raised("Consensus must be a single sentence.")
    ELSE Returned(Some(draft), NoReason)

\* ChairStub.run(stances): the result, or the exception that escapes
ChairStubRun(sts) == CHOOSE out \in {ChairFinish(draft) : draft \in {ChairDraft(sts)}} : TRUE

-----------------------------------------------------------------------------
(* Output validator: committee/core/validators.py *)

Levels(og) == [i \in DOMAIN og |-> og[i].level]

\* faulty variant of _assert_ops_guidance: the AVOID level is not asked for
_assert_ops_guidance_no_avoid(og) ==
    /\ Len(og) = GuidanceLen
    /\ "OK" \in Range(Levels(og))
    /\ "CAUTION" \in Range(Levels(og))
    /\ Range(Levels(og)) \subseteq {"OK", "CAUTION", "AVOID"}

\* _assert_ops_guidance(result): TRUE when it raises nothing
_assert_ops_guidance(og) ==
    /\ Len(og) = GuidanceLen
    /\ "OK" \in Range(Levels(og))
    /\ "CAUTION" \in Range(Levels(og))
    /\ "AVOID" \in Range(Levels(og))
    /\ Range(Levels(og)) \subseteq {"OK", "CAUTION", "AVOID"}

\* validate_committee_result(result): TRUE when it raises nothing
validate_committee_result(r) ==
    /\ CommitteeResultValid(r)
    /\ ConsensusIsSingleSentence(r.consensus)
    /\ _assert_ops_guidance(r.ops_guidance)

-----------------------------------------------------------------------------
(* Chair harness: ChairStub.run on stance lists, the guidance check on lists *)
(* of guidance entries.                                                      *)

MaxStances == 3

MaxChairLen == 16

MaxGuidance == 4

ClaimShort == [text |-> "Risk signals stable.", len |-> 20]

ClaimLong == [text |-> "a claim of the greatest length the schema admits", len |-> MaxShortText]

\* evidence ids and claims an agent's stance may carry: the sector agent cites the
\* watchlist, the flow agent the headlines, the risk agent both under a claim of
\* the greatest length, and the macro agent either of the last two
HeadlineBody == [evidence_ids |-> <<"snapshot.news_headlines">>, core_claims |-> <<ClaimShort>>]

WatchlistBody == [evidence_ids |-> <<"snapshot.watchlist">>, core_claims |-> <<ClaimShort>>]

LongClaimBody ==
    [evidence_ids |-> <<"snapshot.watchlist", "snapshot.news_headlines">>,
     core_claims |-> <<ClaimLong>>]

StanceBodies(a) ==
    CASE a = "sector" -> {WatchlistBody}
      [] a = "flow" -> {HeadlineBody}
      [] a = "risk" -> {LongClaimBody}
      [] OTHER -> {HeadlineBody, LongClaimBody}

StancePalette ==
    UNION { { [agent_name |-> a, regime_tag |-> t, evidence_ids |-> b.evidence_ids,
               core_claims |-> b.core_claims] :
                  t \in Range(RegimeTags), b \in StanceBodies(a) } : a \in AgentNames }

\* levels a guidance entry may carry before the schema has seen it
AnyLevels == OpsGuidanceLevels \cup {"HOLD"}

GuidanceLists == UNION {[1..n -> AnyLevels] : n \in 0..MaxGuidance}

AddStance(s) ==
    /\ Len(stances) < MaxStances
    /\ stances' = Append(stances, s)
    /\ chair' = Idle
    /\ guidance' = << >>
    /\ guidance_ok' = "idle"
    /\ UNCHANGED <<resolverVars, dbVars, pipeVars, laterVars>>

\* a committee of one or two members sitting again: the list repeated
DoubleStances ==
    /\ Len(stances) >= 1
    /\ \A i \in DOMAIN stances : stances[i] = stances[((i - 1) % 2) + 1]
    /\ 2 * Len(stances) <= MaxChairLen
    /\ stances' = stances \o stances
    /\ chair' = Idle
    /\ guidance' = << >>
    /\ guidance_ok' = "idle"
    /\ UNCHANGED <<resolverVars, dbVars, pipeVars, laterVars>>

RunChair ==
    /\ chair = Idle
    /\ chair' = ChairStubRun(stances)
    /\ UNCHANGED <<stances, guidance, guidance_ok>>
    /\ UNCHANGED <<resolverVars, dbVars, pipeVars, laterVars>>

\* validate_committee_result on an otherwise valid result carrying these levels
ValidateGuidance(levels) ==
    /\ stances = << >>
    /\ chair = Idle
    /\ guidance' = [i \in DOMAIN levels |-> [level |-> levels[i], text |-> "guidance"]]
    /\ guidance_ok' = IF validate_committee_result(
                              [ChairDraft(<< >>) EXCEPT !.ops_guidance = guidance'])
                       THEN "accepted" ELSE "rejected"
    /\ UNCHANGED <<stances, chair>>
    /\ UNCHANGED <<resolverVars, dbVars, pipeVars, laterVars>>

\* the body of the one stance each agent of a full committee hands in
CommitteeBody(a) == IF a = "sector" THEN WatchlistBody ELSE HeadlineBody

\* the order in which DailyPipeline seats its agents
CommitteeSeats == <<"macro", "flow", "sector", "risk">>

\* run_pre_analysis over the four agents: one stance per agent, in seat order
SeatCommittee(tags) ==
    /\ stances = << >>
    /\ chair = Idle
    /\ stances' = [i \in DOMAIN CommitteeSeats |->
                       [agent_name |-> CommitteeSeats[i], regime_tag |-> tags[i],
                        evidence_ids |-> CommitteeBody(CommitteeSeats[i]).evidence_ids,
                        core_claims |-> CommitteeBody(CommitteeSeats[i]).core_claims]]
    /\ guidance' = << >>
    /\ guidance_ok' = "idle"
    /\ UNCHANGED chair
    /\ UNCHANGED <<resolverVars, dbVars, pipeVars, laterVars>>

NextChair ==
    \/ \E s \in StancePalette : AddStance(s)
    \/ DoubleStances
    \/ RunChair
    \/ \E levels \in GuidanceLists : ValidateGuidance(levels)
    \/ \E tags \in [DOMAIN CommitteeSeats -> Range(RegimeTags)] : SeatCommittee(tags)

SpecChair == Init /\ [][NextChair]_vars

ChairReturned == chair # Idle /\ chair.kind = "return"

ChairResult == chair.value[1]

\* C8: for every stance list, the empty one included, ChairStub.run never trips its
\* own single-sentence check, and the consensus of the returned result holds at most
\* one of '.', '!', '?' and no newline.
C8_ConsensusOneTerminator ==
    chair # Idle
        => /\ chair.reason # "Consensus must be a single sentence."
           /\ chair.kind = "return"
                  => /\ Terminators(ChairResult.consensus) <= 1
                     /\ \A i \in DOMAIN ChairResult.consensus :
                            ChairResult.consensus[i] # "\n"

C8_Witness ==
    /\ ChairReturned
    /\ stances = << >>
    /\ Terminators(ChairResult.consensus) = 1

\* exactly 3 entries, levels OK, CAUTION and AVOID each once
GuidanceShape(og) ==
    /\ Len(og) = 3
    /\ \A l \in {"OK", "CAUTION", "AVOID"} :
           Cardinality({i \in DOMAIN og : og[i].level = l}) = 1

\* C9: the guidance of every result ChairStub.run returns has exactly 3 entries with
\* levels OK, CAUTION and AVOID, each once; and validate_committee_result accepts a
\* result only when its guidance has that shape.
C9_GuidanceShape ==
    /\ ChairReturned => GuidanceShape(ChairResult.ops_guidance)
    /\ guidance_ok = "accepted" => GuidanceShape(guidance)

C9_Witness ==
    /\ guidance_ok = "accepted"
    /\ Levels(guidance) = <<"AVOID", "OK", "CAUTION">>

\* the tags other than the majority tag that hold a vote
MinorityTags(sts) ==
    {t \in Range(RegimeTags) : t # MajorityTag(sts)[1] /\ TagCount(sts, t) > 0}

\* the agents of the stances that hold a tag
Holders(sts, t) == {sts[i].agent_name : i \in {j \in DOMAIN sts : sts[j].regime_tag = t}}

\* C10: for a non-empty stance list the returned disagreement list has exactly one
\* entry per tag, other than the majority tag, that holds a vote, naming at most 5 of
\* that tag's holders; with no such tag it is a single placeholder; it is never empty,
\* never longer than 3, and the majority tag is never a minority.
C10_Disagreements ==
    (ChairReturned /\ stances # << >>)
        => LET ds == ChairResult.disagreements
               minorities == MinorityTags(stances)
           IN  /\ Len(ds) >= 1 /\ Len(ds) <= 3
               /\ \A i \in DOMAIN ds : ds[i].minority # MajorityTag(stances)[1]
               /\ minorities # {}
                      => /\ Len(ds) = Cardinality(minorities)
                         /\ \A t \in minorities :
                                \E i \in DOMAIN ds :
                                    /\ ds[i].minority = t
                                    /\ ds[i].majority = MajorityTag(stances)[1]
                                    /\ Len(ds[i].minority_agents) <= 5
                                    /\ Len(ds[i].minority_agents) >= 1
                                    /\ Range(ds[i].minority_agents) \subseteq Holders(stances, t)
               /\ minorities = {}
                      => /\ Len(ds) = 1
                         /\ ds[1].minority = "None"
                         /\ ds[1].minority_agents = <<"none">>

\* a minority tag with more than 5 holders, cut to 5
C10_Witness ==
    /\ ChairReturned
    /\ Len(stances) = MaxChairLen
    /\ Len(ChairResult.disagreements) = 1
    /\ ChairResult.disagreements[1].minority = "NEUTRAL"
    /\ TagCount(stances, "NEUTRAL") > 5
    /\ Len(ChairResult.disagreements[1].minority_agents) = 5

\* the regime tags of a stance list, in order
TagsOf(sts) == [i \in DOMAIN sts |-> sts[i].regime_tag]

\* C11: whenever the RISK_OFF votes strictly exceed half of all votes, ChairStub.run
\* returns the defensive-posture consensus and every disagreement entry names RISK_OFF
\* as the majority; for the tags RISK_OFF, RISK_OFF, RISK_OFF, NEUTRAL the
\* disagreements are exactly one entry, majority RISK_OFF and minority NEUTRAL.
C11_DefensiveMajority ==
    (chair # Idle /\ 2 * TagCount(stances, "RISK_OFF") > Len(stances))
        => /\ chair.kind = "return"
           /\ ChairResult.consensus = ConsensusDefensive
           /\ \A i \in DOMAIN ChairResult.disagreements :
                  ChairResult.disagreements[i].majority = "RISK_OFF"
           /\ TagsOf(stances) = <<"RISK_OFF", "RISK_OFF", "RISK_OFF", "NEUTRAL">>
                  => /\ Len(ChairResult.disagreements) = 1
                     /\ ChairResult.disagreements[1].minority = "NEUTRAL"

\* C12: for the empty stance list ChairStub.run raises nothing and returns the fixed
\* result: the no-consensus sentence, one placeholder key point, one placeholder
\* disagreement entry and exactly 3 guidance entries.
C12_NoStancesResult ==
    (chair # Idle /\ stances = << >>)
        => /\ chair.kind = "return"
           /\ ChairResult.consensus = ConsensusNoStances
           /\ Len(ChairResult.key_points) = 1
           /\ ChairResult.key_points[1].about = "Stance list is empty."
           /\ ChairResult.key_points[1].sources = <<"none">>
           /\ Len(ChairResult.disagreements) = 1
           /\ ChairResult.disagreements[1].topic = "Regime tags"
           /\ ChairResult.disagreements[1].majority = "None"
           /\ ChairResult.disagreements[1].minority = "None"
           /\ ChairResult.disagreements[1].minority_agents = <<"none">>
           /\ Len(ChairResult.ops_guidance) = 3

C12_Witness ==
    /\ ChairReturned
    /\ stances = << >>
    /\ Len(ChairResult.key_points) = 1
    /\ ChairResult.disagreements = <<PlaceholderNoStances>>
    /\ Levels(ChairResult.ops_guidance) = <<"OK", "CAUTION", "AVOID">>

-----------------------------------------------------------------------------
(* Snapshot assembly: build_snapshot_real.  The Snapshot record keeps the    *)
(* fields the pipeline persists and the agents read.  phase_two_signals is   *)
(* computed from the resolved fields alone and read by no step modelled      *)
(* here; schemas/snapshot.py lists no such field although the builder        *)
(* passes it, and the model takes the schema as admitting it, as the         *)
(* builder and the agents reading it do.                                     *)

\* fields resolved by _safe_value, under their status key
ValueFields == {"usdkrw", "kospi", "kosdaq", "sp500", "nasdaq", "dow", "usdkrw_pct"}

\* the macro fetch_* functions, under the status key of their series
MacroFetchers ==
    {"us10y", "us2y", "vix", "dxy", "usdkrw_macro",
     "unemployment_rate", "cpi_yoy", "core_cpi_yoy", "pce_yoy", "pmi",
     "wage_level", "wage_yoy", "real_gdp", "gdp_qoq_annualized",
     "fed_funds_rate", "breakeven_10y"}

Sources == ValueFields \cup {"flows"} \cup MacroFetchers

\* the keys of the status dict when _set_last_status receives it
StatusKeys ==
    ValueFields \cup {"flows", "headlines"} \cup MacroFetchers
        \cup {"spread_2_10", "wage_growth", "real_rate"}

\* provider.get_<field>() today: HttpProvider turns a failed request into (None, reason)
FetchValue(cfg, f) ==
    IF f \in cfg.failing THEN Returned(None, "timed out")
    ELSE Returned(Some(cfg.real), NoReason)

\* provider.get_flows() today
FetchFlows(cfg) ==
    IF "flows" \in cfg.failing THEN Returned(None, "unavailable")
    ELSE Returned(Some([foreign_net |-> cfg.real, institution_net |-> 0 - cfg.real,
                        retail_net |-> 0]), NoReason)

\* fetch_<series>() today: a float, or None
FetchMacro(cfg, f) == IF f \in cfg.failing THEN None ELSE Some(cfg.real)

\* (a - b) if (a is not None and b is not None) else None
Minus(a, b) == IF a # None /\ b # None THEN Some(a[1] - b[1]) ELSE None

OkIf(cond) == IF cond THEN "OK" ELSE "FAIL"

\* build_snapshot_real up to the call of _set_last_status: every field resolved,
\* the status dict filled in
ResolveFields(cfg) ==
    LET value == [f \in ValueFields |-> _safe_value(FetchValue(cfg, f), FallbackValue)]
        flows == _safe_flows(FetchFlows(cfg), FallbackFlows)
        headlines == _safe_headlines(cfg.headlines)
        fetched == [f \in MacroFetchers |-> FetchMacro(cfg, f)]
        macro == [k \in MacroFetchers \cup {"spread_2_10", "wage_growth", "real_rate"} |->
                     CASE k = "spread_2_10" -> Minus(fetched["us10y"], fetched["us2y"])
                       [] k = "real_rate" -> Minus(fetched["us10y"], fetched["breakeven_10y"])
                       [] k = "wage_growth" -> fetched["wage_level"]
                       [] OTHER -> fetched[k]]
    IN  [fn |-> "build_snapshot_real",
         value |-> [f \in ValueFields |-> value[f].value[1]],
         reason |-> [f \in ValueFields |-> value[f].reason],
         flows |-> flows.value[1],
         flows_reason |-> flows.reason,
         headlines |-> headlines.value[1],
         headlines_reason |-> headlines.reason,
         macro |-> macro,
         status |-> [k \in StatusKeys |->
                        CASE k \in ValueFields -> OkIf(value[k].reason = NoReason)
                          [] k = "flows" -> OkIf(flows.reason = NoReason)
                          [] k = "headlines" -> OkIf(headlines.reason = NoReason)
                          [] OTHER -> OkIf(macro[k] # None)]]

\* market_summary.note: the levels sentence when a level is non-zero, else the
\* usdkrw*/kospi* failure notes joined, else the placeholder
MarketNote(b) ==
    IF b.value["usdkrw"] # 0 \/ b.value["kospi"] # 0 THEN "levels"
    ELSE IF \E f \in {"usdkrw", "kospi", "usdkrw_pct"} : b.reason[f] # NoReason
         THEN "fetch_failed"
         ELSE "market_summary_note_unavailable"

\* flow_summary.note: the flows failure note, else the three totals
FlowNote(b) == IF b.flows_reason # NoReason THEN "fetch_failed" ELSE "totals"

MaxNewsHeadlines == 10

\* the checks of the Snapshot schema that depend on the day's data
SnapshotValid(b) == Len(b.headlines) >= 1 /\ Len(b.headlines) <= MaxNewsHeadlines

\* the Snapshot(...) the builder returns
SnapshotOf(b) ==
    [market_summary |-> [note |-> MarketNote(b), kospi_change_pct |-> b.value["kospi"],
                         usdkrw |-> b.value["usdkrw"]],
     flow_summary |-> [note |-> FlowNote(b), foreign_net |-> b.flows["foreign_net"],
                       institution_net |-> b.flows["institution_net"],
                       retail_net |-> b.flows["retail_net"]],
     news_headlines |-> b.headlines,
     markets |-> [kospi_pct |-> b.value["kospi"], kosdaq_pct |-> b.value["kosdaq"],
                  sp500_pct |-> b.value["sp500"], nasdaq_pct |-> b.value["nasdaq"],
                  dow_pct |-> b.value["dow"], usdkrw |-> b.value["usdkrw"],
                  usdkrw_pct |-> b.value["usdkrw_pct"],
                  vix |-> IF b.macro["vix"] # None THEN b.macro["vix"][1] ELSE 0],
     macro |-> [daily |-> [us10y |-> b.macro["us10y"], us2y |-> b.macro["us2y"],
                           spread_2_10 |-> b.macro["spread_2_10"], vix |-> b.macro["vix"],
                           dxy |-> b.macro["dxy"], usdkrw |-> b.macro["usdkrw_macro"]],
                monthly |-> [unemployment_rate |-> b.macro["unemployment_rate"],
                             cpi_yoy |-> b.macro["cpi_yoy"],
                             core_cpi_yoy |-> b.macro["core_cpi_yoy"],
                             pce_yoy |-> b.macro["pce_yoy"], pmi |-> b.macro["pmi"],
                             wage_growth |-> b.macro["wage_growth"],
                             wage_level |-> b.macro["wage_level"],
                             wage_yoy |-> b.macro["wage_yoy"]],
                quarterly |-> [real_gdp |-> b.macro["real_gdp"],
                               gdp_qoq_annualized |-> b.macro["gdp_qoq_annualized"]],
                structural |-> [fed_funds_rate |-> b.macro["fed_funds_rate"],
                                real_rate |-> b.macro["real_rate"]]]]

-----------------------------------------------------------------------------
(* Pre-analysis agents and run_pre_analysis *)

Claim(text, len) == [text |-> text, len |-> len]

MarketEvidence ==
    <<"snapshot.market_summary.usdkrw", "snapshot.market_summary.kospi_change_pct",
      "snapshot.news_headlines">>

\* MacroStub.run(snapshot); the notes the builder writes never hold "volatile"
MacroStub(snap) ==
    LET data_unavailable == /\ snap.market_summary.usdkrw = 0
                            /\ snap.market_summary.kospi_change_pct = 0
                            /\ snap.market_summary.note = "fetch_failed"
    IN  [agent_name |-> "macro", regime_tag |-> "NEUTRAL", evidence_ids |-> MarketEvidence,
         core_claims |-> IF data_unavailable
                         THEN <<Claim("Macro data unavailable.", 23),
                                Claim("Use neutral stance.", 19)>>
                         ELSE <<Claim("Macro tone is balanced.", 23),
                                Claim("No major shocks.", 16), Claim("Stay selective.", 15)>>]

\* FlowStub.run(snapshot); the notes the builder writes never hold "inflow"
FlowStub(snap) ==
    LET data_unavailable == /\ \/ snap.flow_summary.foreign_net = 0
                               \/ snap.flow_summary.institution_net = 0
                               \/ snap.flow_summary.retail_net = 0
                            /\ snap.flow_summary.note = "fetch_failed"
    IN  [agent_name |-> "flow", regime_tag |-> "NEUTRAL",
         evidence_ids |-> <<"snapshot.flow_summary.note", "snapshot.watchlist">>,
         core_claims |-> IF data_unavailable
                         THEN <<Claim("Flow data unavailable.", 22),
                                Claim("Use neutral stance.", 19)>>
                         ELSE <<Claim("Flows are balanced.", 19), Claim("No strong tilt.", 15),
                                Claim("Keep positions moderate.", 24)>>]

\* SectorStub.run(snapshot); sector_moves is always ["n/a", "n/a", "n/a"]
SectorStub(snap) ==
    [agent_name |-> "sector", regime_tag |-> "NEUTRAL",
     evidence_ids |-> <<"snapshot.sector_moves", "snapshot.watchlist">>,
     core_claims |-> <<Claim("Sector moves are mixed.", 23), Claim("No clear leader.", 16),
                       Claim("Maintain balance.", 17)>>]

\* RiskStub.run(snapshot)
RiskStub(snap) ==
    IF \E i \in DOMAIN snap.news_headlines : snap.news_headlines[i] = "risk headline"
    THEN [agent_name |-> "risk", regime_tag |-> "RISK_OFF", evidence_ids |-> MarketEvidence,
          core_claims |-> <<Claim("Risk signals elevated.", 22),
                            Claim("Headline risk rising.", 21),
                            Claim("Reduce exposure.", 16)>>]
    ELSE [agent_name |-> "risk", regime_tag |-> "NEUTRAL", evidence_ids |-> MarketEvidence,
          core_claims |-> <<Claim("Risk signals stable.", 20), Claim("No acute stress.", 16),
                            Claim("Maintain discipline.", 20)>>]

\* _build_pre_analysis_agent(agent_name, ...).run(snapshot) with the stub agents
AgentRun(agent_name, snap) ==
    CASE agent_name = "macro" -> MacroStub(snap)
      [] agent_name = "flow" -> FlowStub(snap)
      [] agent_name = "sector" -> SectorStub(snap)
      [] OTHER -> RiskStub(snap)

\* run_pre_analysis(snapshot, agent_ids): AgentName(agent_id) raises on an unknown id
run_pre_analysis(snap, agent_ids) ==
    IF \E i \in DOMAIN agent_ids : agent_ids[i] \notin AgentNames
    THEN Raised("ValueError")
    ELSE Returned(Some([i \in DOMAIN agent_ids |-> AgentRun(agent_ids[i], snap)]), NoReason)

-----------------------------------------------------------------------------
(* validate_pipeline.  The forbidden-phrase and ticker scans find nothing in *)
(* the texts the stub agents, the chair and the builder write here.          *)

ALLOWED_EVIDENCE_IDS ==
    {"snapshot.market_summary.note", "snapshot.market_summary.usdkrw",
     "snapshot.market_summary.kospi_change_pct", "snapshot.flow_summary.note",
     "snapshot.sector_moves", "snapshot.news_headlines", "snapshot.watchlist"}

\* the evidence ids of the model that match the IdToken pattern
\* ^snapshot\.[a-z_]+(\.[a-z_]+)*$ within its 60 characters
IdTokens ==
    ALLOWED_EVIDENCE_IDS
        \cup {"snapshot.markets.kr", "snapshot.markets.volatility.vix",
              "snapshot.macro.daily.dxy", "snapshot.macro.structural.real_rate",
              "snapshot.phase_two_signals.earnings_signal_score",
              "snapshot.phase_two_signals.breadth_signal_score",
              "snapshot.phase_two_signals.liquidity_signal_score"}

\* CoreClaims: Field(min_length=1, max_length=3); EvidenceIds: Field(min_length=1, max_length=10)
MaxEvidenceIds == 10

\* Stance.model_validate(stance): TRUE when it raises nothing
StanceValidFor(stance, names) ==
    /\ stance.agent_name \in names
    /\ stance.regime_tag \in Range(RegimeTags)
    /\ Len(stance.core_claims) >= 1 /\ Len(stance.core_claims) <= MaxItems
    /\ \A i \in DOMAIN stance.core_claims :
           stance.core_claims[i].len >= 1 /\ stance.core_claims[i].len <= MaxShortText
    /\ Len(stance.evidence_ids) >= 1 /\ Len(stance.evidence_ids) <= MaxEvidenceIds
    /\ Range(stance.evidence_ids) \subseteq IdTokens

\* Stance.model_validate(stance) with AgentName as schemas/stance.py declares it
StanceValid(stance) == StanceValidFor(stance, AgentNames)

\* faulty variant of _assert_evidence_ids: only the first id is looked at
_assert_evidence_ids_first(stance) ==
    stance.evidence_ids = << >> \/ stance.evidence_ids[1] \in ALLOWED_EVIDENCE_IDS

\* _assert_evidence_ids(stance)
_assert_evidence_ids(stance) == Range(stance.evidence_ids) \subseteq ALLOWED_EVIDENCE_IDS

\* validate_stances(stances): TRUE when it raises nothing
validate_stances(sts) ==
    /\ \A i \in DOMAIN sts : StanceValid(sts[i]) /\ _assert_evidence_ids(sts[i])
    /\ Len(sts) >= 1
    /\ \A i \in DOMAIN sts : Len(sts[i].core_claims) <= MaxItems

\* validate_pipeline(snapshot, stances, committee_result): TRUE when it raises nothing
validate_pipeline(snap, sts, result) ==
    /\ Len(snap.news_headlines) >= 1 /\ Len(snap.news_headlines) <= MaxNewsHeadlines
    /\ validate_stances(sts)
    /\ validate_committee_result(result)

\* build_report(market_date, snapshot, stances, committee_result), less its timestamp
build_report(market_date, snap, sts, result) ==
    [market_date |-> market_date, snapshot |-> snap, stances |-> sts,
     committee_result |-> result]

-----------------------------------------------------------------------------
(* Persistence as DailyPipeline.run drives it *)

\* status.get(key)
StatusGet(st, key) == IF key \in DOMAIN st THEN st[key] ELSE NoReason

\* the keyword arguments of safe_upsert_market_daily
MarketDailyRow(snap, st) ==
    [kospi_pct |-> Some(snap.markets.kospi_pct),
     kosdaq_pct |-> Some(snap.markets.kosdaq_pct),
     sp500_pct |-> Some(snap.markets.sp500_pct),
     nasdaq_pct |-> Some(snap.markets.nasdaq_pct),
     dow_pct |-> Some(snap.markets.dow_pct),
     usdkrw |-> Some(snap.markets.usdkrw),
     usdkrw_pct |-> IF StatusGet(st, "usdkrw_pct") = "OK"
                    THEN Some(snap.markets.usdkrw_pct) ELSE None,
     us10y |-> None,
     vix |-> IF StatusGet(st, "vix") = "OK" THEN Some(snap.markets.vix) ELSE None]

\* foreign_net_db
ForeignNetDb(snap, st) ==
    IF StatusGet(st, "flows") = "OK" THEN Some(snap.flow_summary.foreign_net) ELSE None

\* the keyword arguments of safe_upsert_daily_macro
DailyMacroRow(snap) ==
    [us10y |-> snap.macro.daily.us10y, us2y |-> snap.macro.daily.us2y,
     spread_2_10 |-> snap.macro.daily.spread_2_10, vix |-> snap.macro.daily.vix,
     dxy |-> snap.macro.daily.dxy, usdkrw |-> snap.macro.daily.usdkrw,
     fed_funds_rate |-> snap.macro.structural.fed_funds_rate,
     real_rate |-> snap.macro.structural.real_rate]

\* the keyword arguments of safe_upsert_monthly_macro
MonthlyMacroRow(snap) ==
    [unemployment_rate |-> snap.macro.monthly.unemployment_rate,
     cpi_yoy |-> snap.macro.monthly.cpi_yoy,
     core_cpi_yoy |-> snap.macro.monthly.core_cpi_yoy,
     pce_yoy |-> snap.macro.monthly.pce_yoy, pmi |-> snap.macro.monthly.pmi,
     wage_level |-> snap.macro.monthly.wage_level,
     wage_yoy |-> snap.macro.monthly.wage_yoy]

\* the keyword arguments of safe_upsert_quarterly_macro
QuarterlyMacroRow(snap) ==
    [real_gdp |-> snap.macro.quarterly.real_gdp,
     gdp_qoq_annualized |-> snap.macro.quarterly.gdp_qoq_annualized]

Window20 == 20

Window60 == 60

\* update_market_flow_rollings(date): UPDATE ... WHERE date = :date
update_market_flow_rollings(table, date) ==
    [d \in DOMAIN table |->
        IF d = date
        THEN [table[d] EXCEPT
                 !.foreign_20d = calculate_rolling_sum(table, "foreign_net", Window20).value,
                 !.foreign_60d = calculate_rolling_sum(table, "foreign_net", Window60).value]
        ELSE table[d]]

\* what can go wrong inside one write: nothing, opening the file, init_db, the
\* INSERT, the commit (a locked database shows at any of them)
DbFaults == {"none", "open", "init_db", "insert", "commit"}

\* upsert_<table>(...): raises at the fault, the connection closing uncommitted
UpsertOutcome(fault) == IF fault = "none" THEN Returned(None, NoReason) ELSE Raised(fault)

\* faulty variant of safe_upsert: the exception is passed on
safe_upsert_reraise(out) == out

\* safe_upsert_*: try: upsert(...) except Exception as exc: _log_db_error(context, exc)
safe_upsert(out) == IF out.kind = "raise" THEN Returned(None, out.reason) ELSE out

\* control after a safe wrapper: on to the next statement, or out of run with the
\* exception the wrapper let through
AfterWrite(stage, next, out) ==
    IF out.kind = "raise"
    THEN /\ pc' = "failed"
         /\ error' = [stage |-> stage, msg |-> out.reason]
         /\ UNCHANGED db_errors
    ELSE /\ pc' = next
         /\ db_errors' = IF out.reason # NoReason THEN db_errors \cup {stage} ELSE db_errors
         /\ UNCHANGED error

-----------------------------------------------------------------------------
(* DailyPipeline.run, one statement at a time *)

\* which sources fail today: none, one of them, or all of them
FailureSets == {{}} \cup {{f} : f \in Sources} \cup {Sources}

\* the figure every working source reports: a real zero, or a non-zero value
RealValues == {0, 5}

\* provider.get_headlines(limit=50) today
RunHeadlineOutcomes ==
    {Returned(None, "no_titles"),
     Returned(Some(Headlines(3, FALSE)), NoReason),
     Returned(Some(Headlines(MinHeadlines, FALSE)), NoReason),
     Returned(Some(Headlines(MinHeadlines, TRUE)), NoReason),
     Returned(Some(Headlines(MaxNewsHeadlines + 1, FALSE)), NoReason)}

\* market_date: run_nightly passes date.today(), the latest date the store can hold
RunDates == {MaxDate}

\* DailyPipeline.agent_ids
AgentIdLists ==
    {<< >>, <<"risk">>, <<"macro", "flow", "sector", "risk">>, <<"macro", "earnings">>}

\* run() entered; build_snapshot_real resolves every field and fills its status dict
StartRun(market_date, agent_ids, failing, real, headlines) ==
    /\ pc = "idle"
    /\ run' = [fn |-> "DailyPipeline.run", market_date |-> market_date,
               agent_ids |-> agent_ids, failing |-> failing, real |-> real,
               headlines |-> headlines]
    /\ built' = ResolveFields(run')
    /\ pc' = "resolved"
    /\ UNCHANGED <<_LAST_STATUS, snapshot, status, market_daily, market_flow_daily,
                   daily_macro, monthly_macro, quarterly_macro, db_errors, run_stances,
                   committee_result, report, delivered, error>>
    /\ UNCHANGED <<resolverVars, roll_call, roll_ret, chairVars, laterVars>>

\* _set_last_status: _LAST_STATUS.clear()
ClearLastStatus ==
    /\ pc = "resolved"
    /\ _LAST_STATUS' = << >>
    /\ pc' = "cleared"
    /\ UNCHANGED <<run, built, snapshot, status, market_daily, market_flow_daily,
                   daily_macro, monthly_macro, quarterly_macro, db_errors, run_stances,
                   committee_result, report, delivered, error>>
    /\ UNCHANGED <<resolverVars, roll_call, roll_ret, chairVars, laterVars>>

\* faulty variant of UpdateLastStatus: the map is published while only the
\* single-value fields have their entries
UpdateLastStatusPartial ==
    /\ pc = "cleared"
    /\ _LAST_STATUS' = [k \in ValueFields |-> built.status[k]]
    /\ pc' = "published"
    /\ UNCHANGED <<run, built, snapshot, status, market_daily, market_flow_daily,
                   daily_macro, monthly_macro, quarterly_macro, db_errors, run_stances,
                   committee_result, report, delivered, error>>
    /\ UNCHANGED <<resolverVars, roll_call, roll_ret, chairVars, laterVars>>

\* _set_last_status: _LAST_STATUS.update(status)
UpdateLastStatus ==
    /\ pc = "cleared"
    /\ _LAST_STATUS' = [k \in DOMAIN _LAST_STATUS \cup DOMAIN built.status |->
                           IF k \in DOMAIN built.status THEN built.status[k]
                           ELSE _LAST_STATUS[k]]
    /\ pc' = "published"
    /\ UNCHANGED <<run, built, snapshot, status, market_daily, market_flow_daily,
                   daily_macro, monthly_macro, quarterly_macro, db_errors, run_stances,
                   committee_result, report, delivered, error>>
    /\ UNCHANGED <<resolverVars, roll_call, roll_ret, chairVars, laterVars>>

\* return Snapshot(...): the schema accepts the record, or its error leaves run()
ConstructSnapshot ==
    /\ pc = "published"
    /\ IF SnapshotValid(built)
       THEN /\ snapshot' = Some(SnapshotOf(built))
            /\ pc' = "built"
            /\ UNCHANGED error
       ELSE /\ pc' = "failed"
            /\ error' = [stage |-> "build_snapshot", msg |-> "ValidationError"]
            /\ UNCHANGED snapshot
    /\ built' = Idle
    /\ UNCHANGED <<run, _LAST_STATUS, status, market_daily, market_flow_daily,
                   daily_macro, monthly_macro, quarterly_macro, db_errors, run_stances,
                   committee_result, report, delivered>>
    /\ UNCHANGED <<resolverVars, roll_call, roll_ret, chairVars, laterVars>>

\* status = get_last_snapshot_status()
ReadStatus ==
    /\ pc = "built"
    /\ status' = _LAST_STATUS
    /\ pc' = "upsert_market_daily"
    /\ UNCHANGED <<run, built, _LAST_STATUS, snapshot, market_daily, market_flow_daily,
                   daily_macro, monthly_macro, quarterly_macro, db_errors, run_stances,
                   committee_result, report, delivered, error>>
    /\ UNCHANGED <<resolverVars, roll_call, roll_ret, chairVars, laterVars>>

SafeUpsertMarketDaily(fault) ==
    /\ pc = "upsert_market_daily"
    /\ market_daily' = IF fault = "none"
                       THEN Upsert(market_daily, run.market_date,
                                   MarketDailyRow(snapshot[1], status))
                       ELSE market_daily
    /\ AfterWrite("upsert_market_daily", "upsert_market_flow_daily",
                  safe_upsert(UpsertOutcome(fault)))
    /\ UNCHANGED <<run, built, _LAST_STATUS, snapshot, status, market_flow_daily,
                   daily_macro, monthly_macro, quarterly_macro, run_stances,
                   committee_result, report, delivered>>
    /\ UNCHANGED <<resolverVars, roll_call, roll_ret, chairVars, laterVars>>

\* safe_upsert_market_flow_daily: the upsert, then update_market_flow_rollings, each
\* on a connection of its own; "rolling" is a fault inside the second
SafeUpsertMarketFlowDaily(fault) ==
    /\ pc = "upsert_market_flow_daily"
    /\ LET row == FlowRow(ForeignNetDb(snapshot[1], status), None, None)
           upserted == Upsert(market_flow_daily, run.market_date, row)
       IN  market_flow_daily' =
               CASE fault = "none" -> update_market_flow_rollings(upserted, run.market_date)
                 [] fault = "rolling" -> upserted
                 [] OTHER -> market_flow_daily
    /\ AfterWrite("upsert_market_flow_daily", "upsert_daily_macro",
                  safe_upsert(UpsertOutcome(fault)))
    /\ UNCHANGED <<run, built, _LAST_STATUS, snapshot, status, market_daily,
                   daily_macro, monthly_macro, quarterly_macro, run_stances,
                   committee_result, report, delivered>>
    /\ UNCHANGED <<resolverVars, roll_call, roll_ret, chairVars, laterVars>>

SafeUpsertDailyMacro(fault) ==
    /\ pc = "upsert_daily_macro"
    /\ daily_macro' = IF fault = "none"
                      THEN Upsert(daily_macro, run.market_date, DailyMacroRow(snapshot[1]))
                      ELSE daily_macro
    /\ AfterWrite("upsert_daily_macro", "upsert_monthly_macro",
                  safe_upsert(UpsertOutcome(fault)))
    /\ UNCHANGED <<run, built, _LAST_STATUS, snapshot, status, market_daily,
                   market_flow_daily, monthly_macro, quarterly_macro, run_stances,
                   committee_result, report, delivered>>
    /\ UNCHANGED <<resolverVars, roll_call, roll_ret, chairVars, laterVars>>

SafeUpsertMonthlyMacro(fault) ==
    /\ pc = "upsert_monthly_macro"
    /\ monthly_macro' = IF fault = "none"
                        THEN Upsert(monthly_macro, run.market_date,
                                    MonthlyMacroRow(snapshot[1]))
                        ELSE monthly_macro
    /\ AfterWrite("upsert_monthly_macro", "upsert_quarterly_macro",
                  safe_upsert(UpsertOutcome(fault)))
    /\ UNCHANGED <<run, built, _LAST_STATUS, snapshot, status, market_daily,
                   market_flow_daily, daily_macro, quarterly_macro, run_stances,
                   committee_result, report, delivered>>
    /\ UNCHANGED <<resolverVars, roll_call, roll_ret, chairVars, laterVars>>

SafeUpsertQuarterlyMacro(fault) ==
    /\ pc = "upsert_quarterly_macro"
    /\ quarterly_macro' = IF fault = "none"
                          THEN Upsert(quarterly_macro, run.market_date,
                                      QuarterlyMacroRow(snapshot[1]))
                          ELSE quarterly_macro
    /\ AfterWrite("upsert_quarterly_macro", "pre_analysis",
                  safe_upsert(UpsertOutcome(fault)))
    /\ UNCHANGED <<run, built, _LAST_STATUS, snapshot, status, market_daily,
                   market_flow_daily, daily_macro, monthly_macro, run_stances,
                   committee_result, report, delivered>>
    /\ UNCHANGED <<resolverVars, roll_call, roll_ret, chairVars, laterVars>>

\* stances = run_pre_analysis(snapshot, self.agent_ids)
RunPreAnalysis ==
    /\ pc = "pre_analysis"
    /\ LET out == run_pre_analysis(snapshot[1], run.agent_ids)
       IN  IF out.kind = "raise"
           THEN /\ pc' = "failed"
                /\ error' = [stage |-> "pre_analysis", msg |-> out.reason]
                /\ UNCHANGED run_stances
           ELSE /\ run_stances' = out.value[1]
                /\ pc' = "committee"
                /\ UNCHANGED error
    /\ UNCHANGED <<run, built, _LAST_STATUS, snapshot, status, market_daily,
                   market_flow_daily, daily_macro, monthly_macro, quarterly_macro,
                   db_errors, committee_result, report, delivered>>
    /\ UNCHANGED <<resolverVars, roll_call, roll_ret, chairVars, laterVars>>

\* committee_result = run_committee(snapshot, stances)
RunCommittee ==
    /\ pc = "committee"
    /\ LET out == ChairStubRun(run_stances)
       IN  IF out.kind = "raise"
           THEN /\ pc' = "failed"
                /\ error' = [stage |-> "committee", msg |-> out.reason]
                /\ UNCHANGED committee_result
           ELSE /\ committee_result' = out.value
                /\ pc' = "build_report"
                /\ UNCHANGED error
    /\ UNCHANGED <<run, built, _LAST_STATUS, snapshot, status, market_daily,
                   market_flow_daily, daily_macro, monthly_macro, quarterly_macro,
                   db_errors, run_stances, report, delivered>>
    /\ UNCHANGED <<resolverVars, roll_call, roll_ret, chairVars, laterVars>>

\* report = build_report(...)
BuildReport ==
    /\ pc = "build_report"
    /\ report' = Some(build_report(run.market_date, snapshot[1], run_stances,
                                   committee_result[1]))
    /\ pc' = "render"
    /\ UNCHANGED <<run, built, _LAST_STATUS, snapshot, status, market_daily,
                   market_flow_daily, daily_macro, monthly_macro, quarterly_macro,
                   db_errors, run_stances, committee_result, delivered, error>>
    /\ UNCHANGED <<resolverVars, roll_call, roll_ret, chairVars, laterVars>>

\* render_report(report, output_path)
RenderReport ==
    /\ pc = "render"
    /\ delivered' = delivered \cup {"report.json"}
    /\ pc' = "save_run"
    /\ UNCHANGED <<run, built, _LAST_STATUS, snapshot, status, market_daily,
                   market_flow_daily, daily_macro, monthly_macro, quarterly_macro,
                   db_errors, run_stances, committee_result, report, error>>
    /\ UNCHANGED <<resolverVars, roll_call, roll_ret, chairVars, laterVars>>

\* save_run(output_dir, market_date, snapshot, stances, committee_result, report)
SaveRun ==
    /\ pc = "save_run"
    /\ delivered' = delivered \cup {"snapshot.json", "stances.json",
                                    "committee_result.json", "report.md"}
    /\ pc' = "done"
    /\ UNCHANGED <<run, built, _LAST_STATUS, snapshot, status, market_daily,
                   market_flow_daily, daily_macro, monthly_macro, quarterly_macro,
                   db_errors, run_stances, committee_result, report, error>>
    /\ UNCHANGED <<resolverVars, roll_call, roll_ret, chairVars, laterVars>>

Next ==
    \/ \E market_date \in RunDates, agent_ids \in AgentIdLists, failing \in FailureSets,
          real \in RealValues, headlines \in RunHeadlineOutcomes :
           StartRun(market_date, agent_ids, failing, real, headlines)
    \/ ClearLastStatus
    \/ UpdateLastStatus
    \/ ConstructSnapshot
    \/ ReadStatus
    \/ \E fault \in DbFaults : SafeUpsertMarketDaily(fault)
    \/ \E fault \in DbFaults \cup {"rolling"} : SafeUpsertMarketFlowDaily(fault)
    \/ \E fault \in DbFaults : SafeUpsertDailyMacro(fault)
    \/ \E fault \in DbFaults : SafeUpsertMonthlyMacro(fault)
    \/ \E fault \in DbFaults : SafeUpsertQuarterlyMacro(fault)
    \/ RunPreAnalysis
    \/ RunCommittee
    \/ BuildReport
    \/ RenderReport
    \/ SaveRun

Spec == Init /\ [][Next]_vars

-----------------------------------------------------------------------------
(* Properties of the pipeline run *)

\* the status key of the field behind each measured column
MarketDailySource ==
    [kospi_pct |-> "kospi", kosdaq_pct |-> "kosdaq", sp500_pct |-> "sp500",
     nasdaq_pct |-> "nasdaq", dow_pct |-> "dow", usdkrw |-> "usdkrw",
     usdkrw_pct |-> "usdkrw_pct", us10y |-> "us10y", vix |-> "vix"]

MarketFlowSource == [foreign_net |-> "flows"]

DailyMacroSource ==
    [us10y |-> "us10y", us2y |-> "us2y", spread_2_10 |-> "spread_2_10", vix |-> "vix",
     dxy |-> "dxy", usdkrw |-> "usdkrw_macro", fed_funds_rate |-> "fed_funds_rate",
     real_rate |-> "real_rate"]

MonthlyMacroSource ==
    [unemployment_rate |-> "unemployment_rate", cpi_yoy |-> "cpi_yoy",
     core_cpi_yoy |-> "core_cpi_yoy", pce_yoy |-> "pce_yoy", pmi |-> "pmi",
     wage_level |-> "wage_level", wage_yoy |-> "wage_yoy"]

QuarterlyMacroSource ==
    [real_gdp |-> "real_gdp", gdp_qoq_annualized |-> "gdp_qoq_annualized"]

\* every column of every row whose field has status FAIL holds NULL
NullWhereFail(table, source) ==
    \A d \in DOMAIN table : \A c \in DOMAIN source :
        StatusGet(status, source[c]) = "FAIL" => table[d][c] = None

PersistStages ==
    {"upsert_market_daily", "upsert_market_flow_daily", "upsert_daily_macro",
     "upsert_monthly_macro", "upsert_quarterly_macro"}

\* what the run's sources and agent ids alone determine, no database involved
ExpectedSnapshot == SnapshotOf(ResolveFields(run))

ExpectedStances == run_pre_analysis(ExpectedSnapshot, run.agent_ids).value[1]

ExpectedResult == ChairStubRun(ExpectedStances).value

ShortHeadlineFetch ==
    /\ run # Idle
    /\ run.headlines.kind = "return"
    /\ run.headlines.value # None
    /\ Len(run.headlines.value[1]) < MinHeadlines
    /\ ~Truthy(run.headlines.reason)

\* C7: when the headline fetch returns fewer than 5 titles, the headline field is
\* resolved as a failure: reason 'insufficient headlines', an empty headline list,
\* and status FAIL for 'headlines', in the builder and in the published map.
C7_ShortHeadlinesFail ==
    ShortHeadlineFetch
        => /\ built # Idle
                  => /\ built.headlines = << >>
                     /\ built.headlines_reason = "insufficient headlines"
                     /\ built.status["headlines"] = "FAIL"
           /\ pc \in {"published", "built", "failed"}
                  => StatusGet(_LAST_STATUS, "headlines") = "FAIL"

\* three titles fetched, the field resolved and its status published
C7_Witness ==
    /\ ShortHeadlineFetch
    /\ Len(run.headlines.value[1]) = 3
    /\ pc = "published"
    /\ built.headlines = << >>
    /\ _LAST_STATUS["headlines"] = "FAIL"

-----------------------------------------------------------------------------
(* Text checks of validate_pipeline: committee/core/validators.py.  A text   *)
(* is the sequence of its words (the maximal runs of word characters), a     *)
(* word the sequence of its characters; a Hangul syllable is one character,  *)
(* written here in romanised form.                                           *)

UpperLetters ==
    <<"A", "B", "C", "D", "E", "F", "G", "H", "I", "J", "K", "L", "M", "N", "O", "P", "Q", "R", "S", "T", "U", "V", "W", "X", "Y", "Z">>

LowerLetters ==
    <<"a", "b", "c", "d", "e", "f", "g", "h", "i", "j", "k", "l", "m", "n", "o", "p", "q", "r", "s", "t", "u", "v", "w", "x", "y", "z">>

DigitChars == {"0", "1", "2", "3", "4", "5", "6", "7", "8", "9"}

LetterIndex(letters, c) == CHOOSE i \in DOMAIN letters : letters[i] = c

\* str.lower() and str.upper(), character by character
LowerWord(w) ==
    [i \in DOMAIN w |-> IF w[i] \in Range(UpperLetters)
                        THEN LowerLetters[LetterIndex(UpperLetters, w[i])] ELSE w[i]]

UpperWord(w) ==
    [i \in DOMAIN w |-> IF w[i] \in Range(LowerLetters)
                        THEN UpperLetters[LetterIndex(LowerLetters, w[i])] ELSE w[i]]

\* the longest token of TICKER_PATTERN: one letter and up to 11 more characters
MaxTickerLen == 12

\* TICKER_PATTERN = \b[A-Z][A-Z0-9]{1,11}\b: between two word boundaries, so a
\* match is a whole word
TICKER_PATTERN(w) ==
    /\ Len(w) >= 2 /\ Len(w) <= MaxTickerLen
    /\ w[1] \in Range(UpperLetters)
    /\ \A i \in 2..Len(w) : w[i] \in Range(UpperLetters) \cup DigitChars

ALLOWED_NON_TICKER_TOKENS ==
    {<<"U", "S">>,
     <<"K", "R">>,
     <<"U", "S", "D">>,
     <<"C", "P", "I">>,
     <<"G", "D", "P">>,
     <<"P", "M", "I">>,
     <<"F", "O", "M", "C">>,
     <<"E", "T", "F">>,
     <<"A", "I">>,
     <<"O", "I", "L">>,
     <<"F", "E", "D">>,
     <<"C", "N", "B", "C">>,
     <<"K", "O", "S", "P", "I">>,
     <<"K", "O", "S", "D", "A", "Q">>,
     <<"S", "P", "5", "0", "0">>,
     <<"N", "A", "S", "D", "A", "Q">>,
     <<"D", "O", "W">>,
     <<"V", "I", "X">>,
     <<"F", "X">>,
     <<"K", "R", "W">>,
     <<"R", "I", "S", "K", "_", "O", "N">>,
     <<"R", "I", "S", "K", "_", "O", "F", "F">>,
     <<"N", "E", "U", "T", "R", "A", "L">>,
     <<"O", "K">>,
     <<"C", "A", "U", "T", "I", "O", "N">>,
     <<"A", "V", "O", "I", "D">>,
     <<"S", "T", "K">>,
     <<"K", "S", "Q">>}

\* FORBIDDEN_PHRASES, each the sequence of its words
FORBIDDEN_PHRASES ==
    {<<<<"mu", "jo", "geon">>, <<"mae", "su">>>>,
     <<<<"ban", "deu", "si">>, <<"mae", "do">>>>,
     <<<<"jeol", "dae">>, <<"son", "sil">>, <<"eobs", "eum">>>>,
     <<<<"hwag", "jeong">>, <<"su", "ig">>>>}

\* phrase.lower() in text.lower(), for texts that hold the phrase's words whole
PhraseIn(phrase, text) ==
    \E k \in 0..(Len(text) - Len(phrase)) :
        \A i \in DOMAIN phrase : LowerWord(text[k + i]) = LowerWord(phrase[i])

\* _assert_no_forbidden_phrases(texts): TRUE when it raises nothing
_assert_no_forbidden_phrases(texts) ==
    \A i \in DOMAIN texts : \A phrase \in FORBIDDEN_PHRASES : ~PhraseIn(phrase, texts[i])

\* _assert_no_unknown_tickers(texts, watchlist): TRUE when it raises nothing
_assert_no_unknown_tickers(texts, watchlist) ==
    LET watchlist_set == {UpperWord(watchlist[i]) : i \in DOMAIN watchlist}
    IN  \A i \in DOMAIN texts : \A j \in DOMAIN texts[i] :
            TICKER_PATTERN(texts[i][j])
                => \/ texts[i][j] \in ALLOWED_NON_TICKER_TOKENS
                   \/ texts[i][j] \in watchlist_set

RECURSIVE StanceTexts(_), KeyPointTexts(_), DisagreementTexts(_)
\* for stance in stances: core_claims, then korean_comment
StanceTexts(sts) ==
    IF sts = << >> THEN << >>
    ELSE Head(sts).core_claims \o <<Head(sts).korean_comment>> \o StanceTexts(Tail(sts))

\* for key_point in result.key_points: point, then sources
KeyPointTexts(kps) ==
    IF kps = << >> THEN << >>
    ELSE <<Head(kps).point>> \o Head(kps).sources \o KeyPointTexts(Tail(kps))

\* for disagreement in result.disagreements: topic, majority, minority, why_it_matters
DisagreementTexts(ds) ==
    IF ds = << >> THEN << >>
    ELSE <<Head(ds).topic, Head(ds).majority, Head(ds).minority, Head(ds).why_it_matters>>
             \o DisagreementTexts(Tail(ds))

ResultTexts(result) ==
    <<result.consensus>> \o KeyPointTexts(result.key_points)
        \o DisagreementTexts(result.disagreements)
        \o [i \in DOMAIN result.ops_guidance |-> result.ops_guidance[i].text]

\* _extract_text_fields(snapshot, stances, result)
_extract_text_fields(snap, sts, result) ==
    <<snap.market_summary.note, snap.flow_summary.note>> \o snap.sector_moves
        \o snap.news_headlines \o StanceTexts(sts) \o ResultTexts(result)

\* ticker_guard_texts of validate_pipeline: the two notes, the stances, the result
ticker_guard_texts(snap, sts, result) ==
    <<snap.market_summary.note, snap.flow_summary.note>>
        \o StanceTexts(sts) \o ResultTexts(result)

\* validate_pipeline on outputs that pass their schemas: the two text checks
validate_pipeline_texts(snap, sts, result) ==
    IF ~_assert_no_forbidden_phrases(_extract_text_fields(snap, sts, result))
    THEN Raised("Forbidden phrase detected")
    ELSE IF ~_assert_no_unknown_tickers(ticker_guard_texts(snap, sts, result),
                                        snap.watchlist)
    THEN Raised("Ticker not found in snapshot watchlist.")
    ELSE Returned(None, NoReason)

\* _sanitize_ticker_like_tokens(text)
_sanitize_ticker_like_tokens(text) ==
    IF text = << >> THEN <<<<"u", "n", "a", "v", "a", "i", "l", "a", "b", "l", "e">>>>
    ELSE [i \in DOMAIN text |-> IF TICKER_PATTERN(text[i]) THEN LowerWord(text[i])
                                ELSE text[i]]

\* market_summary.note: "KOSPI x%, USD/KRW y. Headlines loaded. Flows loaded." when a
\* level was fetched; else the usdkrw and kospi failure notes, reasons as received
MarketNoteText(market_reason) ==
    IF market_reason = None
    THEN <<<<"K", "O", "S", "P", "I">>, <<"U", "S", "D">>,
           <<"K", "R", "W">>, <<"H", "e", "a", "d", "l", "i", "n", "e", "s">>, <<"l", "o", "a", "d", "e", "d">>>>
    ELSE <<<<"u", "s", "d", "k", "r", "w", "_", "f", "e", "t", "c", "h", "_", "f", "a", "i", "l", "e", "d">>>> \o market_reason
             \o <<<<"k", "o", "s", "p", "i", "_", "c", "h", "a", "n", "g", "e", "_", "p", "c", "t", "_", "f", "e", "t", "c", "h", "_", "f", "a", "i", "l", "e", "d">>>> \o market_reason

\* flow_summary.note: the three totals, else the flows failure note, reason sanitized
FlowNoteText(flows_reason) ==
    IF flows_reason = None
    THEN <<<<"oe", "gug", "in">>, <<"gi", "gwan">>, <<"gae", "in">>>>
    ELSE <<<<"f", "l", "o", "w", "s", "_", "f", "e", "t", "c", "h", "_", "f", "a", "i", "l", "e", "d">>>> \o _sanitize_ticker_like_tokens(flows_reason)
             \o <<<<"de", "i", "teo">>, <<"eobs", "eum">>>>

-----------------------------------------------------------------------------
(* Validator harness: validate_pipeline on outputs whose texts are drawn     *)
(* from a palette, one field and one of four further fields at a time.       *)

WordRisk == <<"r", "i", "s", "k">>

WordAI == <<"A", "I">>

WordXYZ == <<"X", "Y", "Z">>

WordSPY == <<"S", "P", "Y">>

WordSSL == <<"S", "S", "L">>

\* a plain text with no upper-case word
TextPlain == <<WordRisk, <<"s", "t", "a", "b", "l", "e">>>>

\* an allow-listed acronym
TextAI == <<WordRisk, WordAI>>

\* a ticker of no list
TextXYZ == <<WordXYZ, WordRisk>>

\* a ticker a watchlist may hold
TextSPY == <<WordSPY>>

\* the message of a failed TLS handshake, as requests reports it
TextSSL == <<<<"f", "a", "w", "a", "z", "_", "a", "p", "i">>, WordSSL, <<"C", "E", "R", "T", "I", "F", "I", "C", "A", "T", "E", "_", "V", "E", "R", "I", "F", "Y", "_", "F", "A", "I", "L", "E", "D">>>>

\* words the pattern does not match: one letter, mixed case, 13 letters, an
\* underscore inside, a leading digit
TextShapes == <<<<"A">>, <<"X", "y">>, <<"A", "B", "C", "D", "E", "F", "G", "H", "I", "J", "K", "L", "M">>, <<"R", "I", "S", "K", "_", "O", "F", "F">>, <<"1", "X">>>>

\* a letter followed by a digit: matched by the pattern
TextX1 == <<<<"X", "1">>>>

TextForbidden == <<WordRisk, <<"hwag", "jeong">>, <<"su", "ig">>>>

TextPalette == {TextPlain, TextAI, TextXYZ, TextSPY, TextSSL, TextShapes, TextX1,
                TextForbidden}

\* the text fields of the outputs, and the two failure reasons the notes are built from
TextSlots == {"sector_move", "headline", "claim", "korean_comment", "consensus",
              "key_point", "key_source", "topic", "majority", "minority",
              "why_it_matters", "guidance"}

ReasonSlots == {"market_reason", "flows_reason"}

\* the fields and texts of the second choice
SecondSlots == {"market_reason", "flows_reason", "headline", "claim"}

SecondTexts == {TextPlain, TextSSL, TextXYZ}

Watchlists == {<< >>, <<WordSPY>>, <<LowerWord(WordSPY)>>, <<WordXYZ, WordSPY>>}

\* the outputs of a run whose texts are `f` and whose watchlist is `watchlist`
OutputsOf(f, watchlist) ==
    [snapshot |-> [market_summary |-> [note |-> MarketNoteText(f["market_reason"])],
                   flow_summary |-> [note |-> FlowNoteText(f["flows_reason"])],
                   sector_moves |-> <<f["sector_move"]>>,
                   news_headlines |-> <<f["headline"]>>,
                   watchlist |-> watchlist],
     stances |-> <<[core_claims |-> <<f["claim"]>>, korean_comment |-> f["korean_comment"]]>>,
     result |-> [consensus |-> f["consensus"],
                 key_points |-> <<[point |-> f["key_point"], sources |-> <<f["key_source"]>>]>>,
                 disagreements |-> <<[topic |-> f["topic"], majority |-> f["majority"],
                                      minority |-> f["minority"],
                                      why_it_matters |-> f["why_it_matters"]]>>,
                 ops_guidance |-> <<[text |-> f["guidance"]], [text |-> TextPlain],
                                    [text |-> TextPlain]>>]]

\* every field plain and no source failed, but for slots s1 and s2
TextsWith(s1, t1, s2, t2) ==
    [s \in TextSlots \cup ReasonSlots |->
        IF s = s1 THEN t1 ELSE IF s = s2 THEN t2
        ELSE IF s \in ReasonSlots THEN None ELSE TextPlain]

ValidatePipeline(s1, t1, s2, t2, watchlist) ==
    /\ vcall = Idle
    /\ vcall' = [fn |-> "validate_pipeline"] @@ OutputsOf(TextsWith(s1, t1, s2, t2), watchlist)
    /\ vret' = validate_pipeline_texts(vcall'.snapshot, vcall'.stances, vcall'.result)
    /\ UNCHANGED <<resolverVars, dbVars, chairVars, pipeVars>>
    /\ UNCHANGED <<agentVars, statusVars, migrationVars, storeVars>>

\* evidence-id lists a stance may arrive with: allowed ids, an id of the snapshot
\* outside the allow-list, an id that is no snapshot path, and none at all
EvidenceLists ==
    {<<"snapshot.watchlist">>, <<"snapshot.watchlist", "snapshot.news_headlines">>,
     <<"snapshot.watchlist", "snapshot.markets.kr">>, <<"snapshot.markets.kr">>,
     <<"headline.first">>, << >>}

ClaimLists == {<<ClaimShort>>, <<ClaimShort, ClaimShort, ClaimShort, ClaimShort>>}

MaxValidated == 2

StanceInputs ==
    {[agent_name |-> "macro", regime_tag |-> "NEUTRAL", evidence_ids |-> e,
      core_claims |-> c] : e \in EvidenceLists, c \in ClaimLists}

\* a snapshot and a result that pass validate_pipeline on their own
ValidSnapshot == [news_headlines |-> <<"headline">>]

\* validate_stances(stances), and validate_pipeline with the same stances
ValidateStances(sts) ==
    /\ vcall = Idle
    /\ vcall' = [fn |-> "validate_stances", stances |-> sts]
    /\ vret' = [kind |-> IF validate_stances(sts) THEN "return" ELSE "raise",
                reason |-> IF validate_stances(sts) THEN NoReason ELSE "ValueError",
                pipeline |-> IF validate_pipeline(ValidSnapshot, sts, ChairDraft(<< >>))
                             THEN "return" ELSE "raise"]
    /\ UNCHANGED <<resolverVars, dbVars, chairVars, pipeVars>>
    /\ UNCHANGED <<agentVars, statusVars, migrationVars, storeVars>>

NextValidator ==
    \/ \E n \in 0..MaxValidated : \E sts \in [1..n -> StanceInputs] : ValidateStances(sts)
    \/ \E s1 \in TextSlots \cup ReasonSlots, s2 \in SecondSlots,
       t1 \in TextPalette, t2 \in SecondTexts, watchlist \in Watchlists :
        ValidatePipeline(s1, t1, s2, t2, watchlist)

SpecValidator == Init /\ [][NextValidator]_vars

\* the generated text of a run: the agents' claims and comments, the consensus, the
\* key points, the disagreements and the guidance
GeneratedTexts(call) == StanceTexts(call.stances) \o ResultTexts(call.result)

\* some ticker-like token of these texts is in neither list
UnknownTickerIn(texts, watchlist) ==
    \E i \in DOMAIN texts : \E j \in DOMAIN texts[i] :
        /\ TICKER_PATTERN(texts[i][j])
        /\ texts[i][j] \notin ALLOWED_NON_TICKER_TOKENS
        /\ texts[i][j] \notin {UpperWord(watchlist[k]) : k \in DOMAIN watchlist}

TickerRejected == vcall.fn = "validate_pipeline" /\ vret.reason = "Ticker not found in snapshot watchlist."

\* C13: once validate_pipeline reaches its ticker guard, the guard rejects exactly
\* when a ticker-like token of the generated text is in neither the allow-list nor
\* the watchlist; tokens of the headlines alone never cause a rejection.
C13_TickerGuardExact ==
    (vcall.fn = "validate_pipeline" /\ vret.reason # "Forbidden phrase detected")
        => (TickerRejected
                <=> UnknownTickerIn(GeneratedTexts(vcall), vcall.snapshot.watchlist))

\* some stance of the list carries an evidence id outside the allow-list
DisallowedEvidence(sts) ==
    \E i \in DOMAIN sts : \E j \in DOMAIN sts[i].evidence_ids :
        sts[i].evidence_ids[j] \notin ALLOWED_EVIDENCE_IDS

\* C14: validate_stances, and with it validate_pipeline, raises whenever a stance of
\* the list carries an evidence id outside the allow-list, and accepts a non-empty
\* list of schema-valid stances whose evidence ids are all in the allow-list.
C14_EvidenceAllowList ==
    vcall.fn = "validate_stances"
        => /\ DisallowedEvidence(vcall.stances)
                  => vret.kind = "raise" /\ vret.pipeline = "raise"
           /\ (/\ vcall.stances # << >>
               /\ \A i \in DOMAIN vcall.stances : StanceValid(vcall.stances[i])
               /\ ~DisallowedEvidence(vcall.stances))
                  => vret.kind = "return" /\ vret.pipeline = "return"

\* a valid stance followed by one whose second id is outside the allow-list
C14_Witness ==
    /\ vcall.fn = "validate_stances"
    /\ Len(vcall.stances) = 2
    /\ vcall.stances[1].evidence_ids = <<"snapshot.watchlist">>
    /\ vcall.stances[2].evidence_ids = <<"snapshot.watchlist", "snapshot.markets.kr">>
    /\ Len(vcall.stances[2].core_claims) = 1
    /\ vret.kind = "raise"

-----------------------------------------------------------------------------
(* LLM-backed pre-analysis agent: committee/agents/llm_pre_analysis.py       *)

\* _is_model_access_error(exc)
AccessDenied == "openai_http_403: does not have access to model"

_is_model_access_error(message) == message = AccessDenied

RECURSIVE FirstAnswer(_)
\* the loop over the candidate models: an inaccessible model is skipped, any other
\* error is raised again, the first text ends the loop; no text at all is an error
FirstAnswer(responses) ==
    IF responses = << >> THEN Raised("openai_model_resolution_failed")
    ELSE IF Head(responses).kind = "raise" /\ _is_model_access_error(Head(responses).reason)
    THEN FirstAnswer(Tail(responses))
    ELSE Head(responses)

\* faulty variant of LLMAttempt: the parsed object is not validated
LLMAttemptUnchecked(agent_name, api_key, responses) ==
    IF api_key = "missing" THEN Raised("OPENAI_API_KEY is required for LLM agents.")
    ELSE LET answer == FirstAnswer(responses)
         IN  IF answer.kind = "raise" THEN answer
             ELSE LET text == answer.value[1]
                  IN  IF text.parses = "no" THEN Raised("JSONDecodeError")
                      ELSE IF text.parses = "array" THEN Raised("TypeError")
                      ELSE Returned(Some([text.object EXCEPT !.agent_name = agent_name]),
                                    NoReason)

\* the try block of LLMPreAnalysisAgent.run: load_openai_config, the candidate loop,
\* json.loads, parsed["agent_name"] = ..., Stance.model_validate
LLMAttempt(agent_name, api_key, responses) ==
    IF api_key = "missing" THEN Raised("OPENAI_API_KEY is required for LLM agents.")
    ELSE LET answer == FirstAnswer(responses)
         IN  IF answer.kind = "raise" THEN answer
             ELSE LET text == answer.value[1]
                  IN  IF text.parses = "no" THEN Raised("JSONDecodeError")
                      ELSE IF text.parses = "array" THEN Raised("TypeError")
                      ELSE LET parsed == [text.object EXCEPT !.agent_name = agent_name]
                           IN  IF StanceValid(parsed) THEN Returned(Some(parsed), NoReason)
                               ELSE Raised("ValidationError")

\* fallback_agent.run(snapshot): the stub builds its Stance, which the schema checks
FallbackRun(agent_name, snap) ==
    IF StanceValid(AgentRun(agent_name, snap))
    THEN Returned(Some(AgentRun(agent_name, snap)), NoReason)
    ELSE Raised("ValidationError")

\* LLMPreAnalysisAgent(agent_name, fallback_agent, options).run(snapshot)
LLMPreAnalysisAgentRun(agent_name, backend, api_key, responses, snap) ==
    IF backend # "openai" THEN FallbackRun(agent_name, snap)
    ELSE LET attempt == LLMAttempt(agent_name, api_key, responses)
         IN  IF attempt.kind = "return" THEN attempt ELSE FallbackRun(agent_name, snap)

\* the trace.log call of the run: none for another backend
TraceOf(agent_name, backend, api_key, responses) ==
    IF backend # "openai" THEN << >>
    ELSE <<[event |-> "llm_agent_response", agent |-> agent_name,
            fallback_used |-> LLMAttempt(agent_name, api_key, responses).kind = "raise"]>>

\* how many candidate models _build_model_candidates yields in the runs explored
MaxCandidates == 2

\* what the generator may answer for one candidate model
JsonObjects ==
    {[agent_name |-> "chair", regime_tag |-> "RISK_ON",
      evidence_ids |-> <<"snapshot.watchlist">>, core_claims |-> <<ClaimShort>>],
     [agent_name |-> "macro", regime_tag |-> "BULLISH",
      evidence_ids |-> <<"snapshot.watchlist">>, core_claims |-> <<ClaimShort>>]}

ChatTexts ==
    {[parses |-> "no", object |-> << >>], [parses |-> "array", object |-> << >>]}
        \cup {[parses |-> "object", object |-> o] : o \in JsonObjects}

ChatOutcomes ==
    {Raised(AccessDenied), Raised("openai_http_500: server error"), Raised("Read timed out.")}
        \cup {Returned(Some(t), NoReason) : t \in ChatTexts}

\* a day with levels and flows, and a day when both fetches failed
AgentSnapshots ==
    {[market_summary |-> [usdkrw |-> v, kospi_change_pct |-> v,
                          note |-> IF v = 0 THEN "fetch_failed" ELSE "levels"],
      flow_summary |-> [foreign_net |-> v, institution_net |-> v, retail_net |-> v,
                        note |-> IF v = 0 THEN "fetch_failed" ELSE "totals"],
      news_headlines |-> IF v = 0 THEN << >> ELSE <<"risk headline">>] : v \in {0, 5}}

LLMRun(agent_name, backend, api_key, responses, snap) ==
    /\ acall = Idle
    /\ acall' = [fn |-> "run", agent_name |-> agent_name, backend |-> backend,
                 api_key |-> api_key, responses |-> responses, snapshot |-> snap]
    /\ aret' = LLMPreAnalysisAgentRun(agent_name, backend, api_key, responses, snap)
    /\ trace' = trace \o TraceOf(agent_name, backend, api_key, responses)
    /\ UNCHANGED <<resolverVars, dbVars, chairVars, pipeVars>>
    /\ UNCHANGED <<validatorVars, statusVars, migrationVars, storeVars>>

NextAgent ==
    \E agent_name \in AgentNames, backend \in {"openai", "local"},
       api_key \in {"present", "missing"}, n \in 1..MaxCandidates, snap \in AgentSnapshots :
        \E responses \in [1..n -> ChatOutcomes] :
            LLMRun(agent_name, backend, api_key, responses, snap)

SpecAgent == Init /\ [][NextAgent]_vars

\* the generator gave a text for some candidate, every earlier one being inaccessible
AnswerIndex(responses) ==
    {i \in DOMAIN responses :
        /\ responses[i].kind = "return"
        /\ \A j \in 1..(i - 1) : responses[j] = Raised(AccessDenied)}

\* the generator produced a usable stance: a key, a text, a JSON object, a valid stance
GeneratorSucceeded(call) ==
    /\ call.api_key = "present"
    /\ \E i \in AnswerIndex(call.responses) :
           /\ call.responses[i].value[1].parses = "object"
           /\ StanceValid([call.responses[i].value[1].object
                              EXCEPT !.agent_name = call.agent_name])

\* C15: LLMPreAnalysisAgent.run raises nothing and returns a schema-valid stance for
\* every outcome of the opinion generator, and whenever the generator fails (no key,
\* an HTTP error, a timeout, no accessible model, a text that is no JSON object, an
\* object that fails the schema) the stance is the rule-based fallback's.
C15_LLMFallsBack ==
    acall # Idle
        => /\ aret.kind = "return"
           /\ StanceValid(aret.value[1])
           /\ aret.value[1].agent_name = acall.agent_name
           /\ ~GeneratorSucceeded(acall)
                  => aret.value[1] = AgentRun(acall.agent_name, acall.snapshot)

\* every candidate model inaccessible: the fallback's stance, and the trace says so
C15_Witness ==
    /\ acall # Idle
    /\ acall.backend = "openai"
    /\ acall.api_key = "present"
    /\ Len(acall.responses) = MaxCandidates
    /\ \A i \in DOMAIN acall.responses : acall.responses[i] = Raised(AccessDenied)
    /\ aret = Returned(Some(AgentRun(acall.agent_name, acall.snapshot)), NoReason)
    /\ trace = <<[event |-> "llm_agent_response", agent |-> acall.agent_name,
                  fallback_used |-> TRUE]>>

-----------------------------------------------------------------------------
(* The source status map across acquisition runs of one process:            *)
(* build_snapshot_real's status dict, _set_last_status and                   *)
(* get_last_snapshot_status.  _set_last_status empties the module-level      *)
(* dict and then fills it, two calls on a dict every reader shares.          *)

\* how many acquisition runs the process makes
MaxRuns == 3

\* the status dict as build_snapshot_real creates it: the keys written before any
\* fetch, every one "FAIL"
InitialStatus == [k \in StatusKeys \ {"wage_level", "wage_yoy"} |-> "FAIL"]

\* what the sources do during one run
StatusRunConfigs ==
    {[failing |-> f, real |-> 5, headlines |-> h] :
        f \in {{}, Sources},
        h \in {Returned(None, "no_titles"),
               Returned(Some(Headlines(MinHeadlines, FALSE)), NoReason)}}

\* get_last_snapshot_status(): a copy of the module-level dict as it is now
get_last_snapshot_status == _LAST_STATUS

\* build_snapshot_real entered: the local status dict is created
BeginBuild ==
    /\ build_pc \in {"idle", "published", "aborted"}
    /\ build_no < MaxRuns
    /\ build_no' = build_no + 1
    /\ build_status' = InitialStatus
    /\ prev_status' = _LAST_STATUS
    /\ build_pc' = "acquiring"
    /\ UNCHANGED <<_LAST_STATUS, origin>>
    /\ UNCHANGED <<resolverVars, dbVars, chairVars, pipeRestVars>>
    /\ UNCHANGED <<validatorVars, agentVars, migrationVars, storeVars>>

\* every field resolved and its status entry written
AcquireFields(cfg) ==
    /\ build_pc = "acquiring"
    /\ build_status' = [k \in DOMAIN build_status \cup StatusKeys |->
                           ResolveFields(cfg).status[k]]
    /\ build_pc' = "resolved"
    /\ UNCHANGED <<build_no, origin, prev_status, _LAST_STATUS>>
    /\ UNCHANGED <<resolverVars, dbVars, chairVars, pipeRestVars>>
    /\ UNCHANGED <<validatorVars, agentVars, migrationVars, storeVars>>

\* a resolver lets its default's exception out: the run ends before _set_last_status
AcquireRaises ==
    /\ build_pc = "acquiring"
    /\ build_status' = << >>
    /\ build_pc' = "aborted"
    /\ UNCHANGED <<build_no, origin, prev_status, _LAST_STATUS>>
    /\ UNCHANGED <<resolverVars, dbVars, chairVars, pipeRestVars>>
    /\ UNCHANGED <<validatorVars, agentVars, migrationVars, storeVars>>

\* _set_last_status: _LAST_STATUS.clear()
SetLastStatusClear ==
    /\ build_pc = "resolved"
    /\ _LAST_STATUS' = << >>
    /\ origin' = << >>
    /\ build_pc' = "cleared"
    /\ UNCHANGED <<build_no, build_status, prev_status>>
    /\ UNCHANGED <<resolverVars, dbVars, chairVars, pipeRestVars>>
    /\ UNCHANGED <<validatorVars, agentVars, migrationVars, storeVars>>

\* _set_last_status: _LAST_STATUS.update(status)
SetLastStatusUpdate ==
    /\ build_pc = "cleared"
    /\ _LAST_STATUS' = [k \in DOMAIN _LAST_STATUS \cup DOMAIN build_status |->
                           IF k \in DOMAIN build_status THEN build_status[k]
                           ELSE _LAST_STATUS[k]]
    /\ origin' = [k \in DOMAIN _LAST_STATUS \cup DOMAIN build_status |->
                     IF k \in DOMAIN build_status THEN build_no ELSE origin[k]]
    /\ build_pc' = "published"
    /\ UNCHANGED <<build_no, build_status, prev_status>>
    /\ UNCHANGED <<resolverVars, dbVars, chairVars, pipeRestVars>>
    /\ UNCHANGED <<validatorVars, agentVars, migrationVars, storeVars>>

NextStatus ==
    \/ BeginBuild
    \/ \E cfg \in StatusRunConfigs : AcquireFields(cfg)
    \/ AcquireRaises
    \/ SetLastStatusClear
    \/ SetLastStatusUpdate

SpecStatus == Init /\ [][NextStatus]_vars

\* the current run has started and has not published its map
BeforePublication == build_pc \in {"acquiring", "resolved", "cleared", "aborted"}

\* C16: the status map of a run is discarded when the next run starts: from the
\* start of a run until that run publishes, get_last_snapshot_status returns no
\* entry of an earlier run, and once the run has published the map holds exactly
\* that run's entries.
C16_DiscardedAtRunStart ==
    /\ BeforePublication
           => \A k \in DOMAIN get_last_snapshot_status : origin[k] = build_no
    /\ build_pc = "published"
           => /\ get_last_snapshot_status = build_status
              /\ \A k \in DOMAIN get_last_snapshot_status : origin[k] = build_no

\* the complete maps a reader may be given now: the one the previous run published
\* and, once the current run has resolved every field, the current run's
CompleteMaps ==
    ({prev_status}
        \cup (IF build_pc \in {"resolved", "cleared", "published"}
              THEN {build_status} ELSE {})) \ {<< >>}

\* C17: the status map is replaced atomically: whenever a run has published or is
\* publishing, get_last_snapshot_status returns the complete map of the previous
\* run or the complete map of the current run, never a cleared or partly filled one,
\* also while _set_last_status is at work and after a run was aborted.
C17_AtomicReplacement ==
    (prev_status # << >> \/ build_pc \in {"cleared", "published"})
        => get_last_snapshot_status \in CompleteMaps

-----------------------------------------------------------------------------
(* Schema migration on open: init_db in committee/core/database.py.  The    *)
(* database is a map from the names of the tables that exist to their        *)
(* columns and rows; a row is stored under its date and holds a value or     *)
(* NULL in every other column.  market_daily, market_flow_daily and          *)
(* stock_daily are created by the same call and touched by no migration.     *)
(* Every statement inside the try blocks of _ensure_column_exists and        *)
(* _migrate_monthly_macro_drop_wage_growth may fail; the handler prints the  *)
(* failure and init_db goes on to its next statement and commits.            *)

\* how many times the database is opened
MaxInits == 2

\* how many failures one init_db absorbs
MaxFaults == 1

\* CREATE TABLE IF NOT EXISTS daily_macro
DailyMacroColumns ==
    {"date", "us10y", "us2y", "spread_2_10", "vix", "dxy", "usdkrw", "created_at"}

DailyMacroEnsured == <<"dxy", "fed_funds_rate", "real_rate">>

\* CREATE TABLE IF NOT EXISTS monthly_macro, and CREATE TABLE monthly_macro_new
MonthlyMacroColumns ==
    {"date", "unemployment_rate", "cpi_yoy", "core_cpi_yoy", "pce_yoy", "pmi",
     "wage_level", "wage_yoy", "created_at"}

MonthlyMacroEnsured ==
    <<"unemployment_rate", "cpi_yoy", "core_cpi_yoy", "pce_yoy", "pmi", "wage_level",
      "wage_yoy">>

\* CREATE TABLE IF NOT EXISTS quarterly_macro
QuarterlyMacroColumns == {"date", "real_gdp", "gdp_qoq_annualized", "created_at"}

QuarterlyMacroEnsured == <<"real_gdp", "gdp_qoq_annualized">>

Table(cols, rows) == [cols |-> cols, rows |-> rows]

\* a stored row: the value v in the columns filled, NULL in the others
RowOf(cols, filled, v) == [c \in cols \ {"date"} |-> IF c \in filled THEN Some(v) ELSE None]

\* monthly_macro as a database written before wage_level existed holds it
LegacyMonthlyColumns == {"date", "unemployment_rate", "cpi_yoy", "wage_growth", "created_at"}

\* daily_macro as a database written before dxy and the policy columns holds it
LegacyDailyColumns == {"date", "us10y", "us2y", "spread_2_10", "vix", "usdkrw", "created_at"}

\* the databases init_db may find: none yet, one with today's schema, one written
\* before the wage columns were split, and one holding both wage columns (the old
\* writer stored the wage level under both names)
InitialDatabases ==
    {<< >>,
     [daily_macro |-> Table(DailyMacroColumns \cup Range(DailyMacroEnsured),
                            1 :> RowOf(DailyMacroColumns \cup Range(DailyMacroEnsured),
                                       {"us10y", "vix", "real_rate"}, 2)),
      monthly_macro |-> Table(MonthlyMacroColumns,
                              1 :> RowOf(MonthlyMacroColumns, {"cpi_yoy", "wage_level"}, 4)),
      quarterly_macro |-> Table(QuarterlyMacroColumns,
                                1 :> RowOf(QuarterlyMacroColumns, {"real_gdp"}, 7))],
     [daily_macro |-> Table(LegacyDailyColumns,
                            1 :> RowOf(LegacyDailyColumns, {"us10y", "vix"}, 2)),
      monthly_macro |-> Table(LegacyMonthlyColumns,
                              (1 :> RowOf(LegacyMonthlyColumns, {"cpi_yoy", "wage_growth"}, 3))
                                  @@ (2 :> RowOf(LegacyMonthlyColumns, {"cpi_yoy"}, 3)))],
     [daily_macro |-> Table(DailyMacroColumns,
                            1 :> RowOf(DailyMacroColumns, {"us10y", "dxy"}, 2)),
      monthly_macro |-> Table(MonthlyMacroColumns \cup {"wage_growth"},
                              (1 :> RowOf(MonthlyMacroColumns \cup {"wage_growth"},
                                          {"pmi", "wage_growth"}, 3))
                                  @@ (2 :> RowOf(MonthlyMacroColumns \cup {"wage_growth"},
                                                 {"pmi", "wage_level", "wage_growth"}, 4))),
      quarterly_macro |-> Table({"date", "real_gdp", "created_at"},
                                1 :> RowOf({"date", "real_gdp", "created_at"},
                                           {"real_gdp"}, 7))]}

\* CREATE TABLE IF NOT EXISTS <name> (<cols>)
CreateTableIfNotExists(d, name, cols) ==
    IF name \in DOMAIN d THEN d ELSE d @@ (name :> Table(cols, << >>))

\* DROP TABLE <name>
DropTable(d, name) == [t \in DOMAIN d \ {name} |-> d[t]]

\* ALTER TABLE <table> ADD COLUMN <column> REAL: NULL in every stored row
AddColumn(d, table, column) ==
    [d EXCEPT ![table] =
        Table(d[table].cols \cup {column},
              [dt \in DOMAIN d[table].rows |-> d[table].rows[dt] @@ (column :> None)])]

\* _table_columns(conn, table): empty when the table does not exist
_table_columns(d, table) == IF table \in DOMAIN d THEN d[table].cols ELSE {}

\* _ensure_column_exists(conn, table=, column=, column_ddl="REAL"): the database it
\* leaves and whether it printed a failure; fails says a statement of its raised
_ensure_column_exists(d, table, column, fails) ==
    IF fails \/ table \notin DOMAIN d THEN [db |-> d, failed |-> TRUE]
    ELSE IF column \in _table_columns(d, table) THEN [db |-> d, failed |-> FALSE]
    ELSE [db |-> AddColumn(d, table, column), failed |-> FALSE]

\* sel(name): the column when the old table has it, else NULL
sel(cols, row, name) == IF name \in cols THEN row[name] ELSE None

\* faulty variant of wage_level_expr: wage_growth is never read
wage_level_expr_plain(cols, row) ==
    IF "wage_level" \in cols THEN row["wage_level"] ELSE None

\* wage_level_expr: COALESCE(wage_level, wage_growth), or the one column there is
wage_level_expr(cols, row) ==
    IF "wage_level" \in cols /\ "wage_growth" \in cols
    THEN (IF row["wage_level"] # None THEN row["wage_level"] ELSE row["wage_growth"])
    ELSE IF "wage_level" \in cols THEN row["wage_level"]
    ELSE IF "wage_growth" \in cols THEN row["wage_growth"]
    ELSE None

\* INSERT INTO monthly_macro_new (...) SELECT ... FROM monthly_macro
CopiedRows(old) ==
    [dt \in DOMAIN old.rows |->
        [c \in MonthlyMacroColumns \ {"date"} |->
            IF c = "wage_level" THEN wage_level_expr(old.cols, old.rows[dt])
            ELSE sel(old.cols, old.rows[dt], c)]]

\* the database file is chosen
OpenDatabase(initial) ==
    /\ init_pc = "unopened"
    /\ db' = initial
    /\ init_pc' = "closed"
    /\ UNCHANGED <<init_i, init_log, db_before, init_count, first_clean, rebuilds>>
    /\ UNCHANGED <<resolverVars, dbVars, chairVars, pipeVars>>
    /\ UNCHANGED <<validatorVars, agentVars, statusVars, storeVars>>

\* init_db: with connect(db_path) as conn
InitDbConnect ==
    /\ init_pc = "closed"
    /\ init_count < MaxInits
    /\ db_before' = db
    /\ init_log' = {}
    /\ init_pc' = "create_daily_macro"
    /\ UNCHANGED <<db, init_i, init_count, first_clean, rebuilds>>
    /\ UNCHANGED <<resolverVars, dbVars, chairVars, pipeVars>>
    /\ UNCHANGED <<validatorVars, agentVars, statusVars, storeVars>>

\* one CREATE TABLE IF NOT EXISTS of init_db, followed by a loop over columns
CreateStep(table, cols, next) ==
    /\ db' = CreateTableIfNotExists(db, table, cols)
    /\ init_pc' = next
    /\ init_i' = 1
    /\ UNCHANGED <<init_log, db_before, init_count, first_clean, rebuilds>>
    /\ UNCHANGED <<resolverVars, dbVars, chairVars, pipeVars>>
    /\ UNCHANGED <<validatorVars, agentVars, statusVars, storeVars>>

\* one _ensure_column_exists call of a column loop
EnsureStep(table, columns, next, fails) ==
    /\ fails => Cardinality(init_log) < MaxFaults
    /\ LET r == _ensure_column_exists(db, table, columns[init_i], fails)
       IN  /\ db' = r.db
           /\ init_log' = IF r.failed THEN init_log \cup {<<table, columns[init_i]>>}
                          ELSE init_log
    /\ IF init_i < Len(columns)
       THEN init_i' = init_i + 1 /\ init_pc' = init_pc
       ELSE init_i' = 0 /\ init_pc' = next
    /\ UNCHANGED <<db_before, init_count, first_clean, rebuilds>>
    /\ UNCHANGED <<resolverVars, dbVars, chairVars, pipeVars>>
    /\ UNCHANGED <<validatorVars, agentVars, statusVars, storeVars>>

CreateDailyMacro ==
    /\ init_pc = "create_daily_macro"
    /\ CreateStep("daily_macro", DailyMacroColumns, "ensure_daily_macro")

EnsureDailyMacroColumn(fails) ==
    /\ init_pc = "ensure_daily_macro"
    /\ EnsureStep("daily_macro", DailyMacroEnsured,
                  "create_monthly_macro", fails)

CreateMonthlyMacro ==
    /\ init_pc = "create_monthly_macro"
    /\ CreateStep("monthly_macro", MonthlyMacroColumns,
                  "ensure_monthly_macro")

EnsureMonthlyMacroColumn(fails) ==
    /\ init_pc = "ensure_monthly_macro"
    /\ EnsureStep("monthly_macro", MonthlyMacroEnsured, "migrate", fails)

\* _migrate_monthly_macro_drop_wage_growth: no table, or no wage_growth column: return
MigrateCheck ==
    /\ init_pc = "migrate"
    /\ init_pc' = IF "wage_growth" \in _table_columns(db, "monthly_macro")
                  THEN "drop_new" ELSE "create_quarterly_macro"
    /\ UNCHANGED <<db, init_i, init_log, db_before, init_count, first_clean, rebuilds>>
    /\ UNCHANGED <<resolverVars, dbVars, chairVars, pipeVars>>
    /\ UNCHANGED <<validatorVars, agentVars, statusVars, storeVars>>

\* one statement of the rebuild: it takes effect, or it raises and the handler prints
\* db_schema_migration_failed[monthly_macro_drop_wage_growth] and returns
MigrateStep(effect, next, fails) ==
    /\ fails => Cardinality(init_log) < MaxFaults
    /\ IF fails
       THEN /\ init_log' = init_log \cup {<<"monthly_macro_drop_wage_growth", init_pc>>}
            /\ init_pc' = "create_quarterly_macro"
            /\ UNCHANGED db
       ELSE /\ db' = effect
            /\ init_pc' = next
            /\ UNCHANGED init_log
    /\ rebuilds' = IF ~fails /\ init_pc = "rename_new" THEN rebuilds + 1 ELSE rebuilds
    /\ UNCHANGED <<init_i, db_before, init_count, first_clean>>
    /\ UNCHANGED <<resolverVars, dbVars, chairVars, pipeVars>>
    /\ UNCHANGED <<validatorVars, agentVars, statusVars, storeVars>>

\* DROP TABLE IF EXISTS monthly_macro_new
MigrateDropNew(fails) ==
    /\ init_pc = "drop_new"
    /\ MigrateStep(DropTable(db, "monthly_macro_new"), "create_new", fails)

\* CREATE TABLE monthly_macro_new (...)
MigrateCreateNew(fails) ==
    /\ init_pc = "create_new"
    /\ MigrateStep(db @@ ("monthly_macro_new" :> Table(MonthlyMacroColumns, << >>)),
                   "copy_rows", fails)

\* INSERT INTO monthly_macro_new ... SELECT ... FROM monthly_macro
MigrateCopyRows(fails) ==
    /\ init_pc = "copy_rows"
    /\ MigrateStep([db EXCEPT !["monthly_macro_new"] =
                       Table(MonthlyMacroColumns, CopiedRows(db["monthly_macro"]))],
                   "drop_old", fails)

\* DROP TABLE monthly_macro
MigrateDropOld(fails) ==
    /\ init_pc = "drop_old"
    /\ MigrateStep(DropTable(db, "monthly_macro"), "rename_new", fails)

\* ALTER TABLE monthly_macro_new RENAME TO monthly_macro
MigrateRename(fails) ==
    /\ init_pc = "rename_new"
    /\ MigrateStep(DropTable(db, "monthly_macro_new")
                       @@ ("monthly_macro" :> db["monthly_macro_new"]),
                   "create_quarterly_macro", fails)

CreateQuarterlyMacro ==
    /\ init_pc = "create_quarterly_macro"
    /\ CreateStep("quarterly_macro", QuarterlyMacroColumns,
                  "ensure_quarterly_macro")

EnsureQuarterlyMacroColumn(fails) ==
    /\ init_pc = "ensure_quarterly_macro"
    /\ EnsureStep("quarterly_macro", QuarterlyMacroEnsured,
                  "commit", fails)

\* connect: conn.commit() and conn.close() when the with block ends
CommitAndClose ==
    /\ init_pc = "commit"
    /\ init_count' = init_count + 1
    /\ first_clean' = IF init_count = 0 THEN init_log = {} ELSE first_clean
    /\ init_pc' = "closed"
    /\ UNCHANGED <<db, init_i, init_log, db_before, rebuilds>>
    /\ UNCHANGED <<resolverVars, dbVars, chairVars, pipeVars>>
    /\ UNCHANGED <<validatorVars, agentVars, statusVars, storeVars>>

NextMigration ==
    \/ \E initial \in InitialDatabases : OpenDatabase(initial)
    \/ InitDbConnect
    \/ CreateDailyMacro
    \/ \E fails \in BOOLEAN : EnsureDailyMacroColumn(fails)
    \/ CreateMonthlyMacro
    \/ \E fails \in BOOLEAN : EnsureMonthlyMacroColumn(fails)
    \/ MigrateCheck
    \/ \E fails \in BOOLEAN : MigrateDropNew(fails)
    \/ \E fails \in BOOLEAN : MigrateCreateNew(fails)
    \/ \E fails \in BOOLEAN : MigrateCopyRows(fails)
    \/ \E fails \in BOOLEAN : MigrateDropOld(fails)
    \/ \E fails \in BOOLEAN : MigrateRename(fails)
    \/ CreateQuarterlyMacro
    \/ \E fails \in BOOLEAN : EnsureQuarterlyMacroColumn(fails)
    \/ CommitAndClose

SpecMigration == Init /\ [][NextMigration]_vars

\* an init_db call has committed and none is under way
InitDbDone == init_pc = "closed" /\ init_count >= 1

\* the wage reading a row holds: wage_level, or wage_growth where wage_level is
\* absent or NULL
WageOf(cols, row) ==
    IF sel(cols, row, "wage_level") # None THEN row["wage_level"]
    ELSE sel(cols, row, "wage_growth")

\* table new is table old rebuilt on the clean schema: same dates, same values,
\* wage_growth moved into wage_level where wage_level was NULL
RebuiltFrom(old, new) ==
    /\ new.cols = MonthlyMacroColumns
    /\ DOMAIN new.rows = DOMAIN old.rows
    /\ \A dt \in DOMAIN old.rows :
           /\ new.rows[dt]["wage_level"] = WageOf(old.cols, old.rows[dt])
           /\ \A c \in MonthlyMacroColumns \ {"date", "wage_level"} :
                  new.rows[dt][c] = sel(old.cols, old.rows[dt], c)

\* C18: the wage-column consolidation runs at most once per database and is
\* idempotent: the first init_db on a database whose monthly_macro has wage_growth
\* rebuilds the table without it, moving wage_growth into wage_level where
\* wage_level was NULL, and every later init_db leaves the schema and the rows of
\* monthly_macro unchanged (init_db calls whose first one printed no failure).
C18_ConsolidatedOnce ==
    /\ rebuilds <= 1
    /\ (InitDbDone /\ first_clean)
           => /\ "wage_growth" \notin _table_columns(db, "monthly_macro")
              /\ (init_count = 1 /\ "wage_growth" \in _table_columns(db_before, "monthly_macro"))
                     => /\ rebuilds = 1
                        /\ RebuiltFrom(db_before["monthly_macro"], db["monthly_macro"])
              /\ init_count >= 2 => db["monthly_macro"] = db_before["monthly_macro"]

\* a database written before the split was opened twice: the first call moved a
\* wage_growth value into wage_level, the second changed nothing
C18_Witness ==
    /\ InitDbDone
    /\ first_clean
    /\ init_count = 2
    /\ rebuilds = 1
    /\ db["monthly_macro"].cols = MonthlyMacroColumns
    /\ db["monthly_macro"] = db_before["monthly_macro"]
    /\ \E dt \in DOMAIN db["monthly_macro"].rows :
           db["monthly_macro"].rows[dt]["wage_level"] = Some(3)

\* the three macro tables
MacroTables == {"daily_macro", "monthly_macro", "quarterly_macro"}

\* every row of old is in new under its date, with the value it had in every column
\* and the wage reading it had
RowsKept(old, new) ==
    \A dt \in DOMAIN old.rows :
        /\ dt \in DOMAIN new.rows
        /\ WageOf(new.cols, new.rows[dt]) = WageOf(old.cols, old.rows[dt])
        /\ \A c \in old.cols \ {"date", "wage_level", "wage_growth"} :
               sel(new.cols, new.rows[dt], c) = old.rows[dt][c]

\* C19: schema migration on open drops no data: after any init_db, also one that
\* printed and absorbed a failing migration statement, every row that was in
\* monthly_macro, daily_macro or quarterly_macro before the call is still stored in
\* that table under the same date with the same values.
C19_NoDataDropped ==
    InitDbDone
        => \A t \in MacroTables \cap DOMAIN db_before :
               /\ t \in DOMAIN db
               /\ RowsKept(db_before[t], db[t])

-----------------------------------------------------------------------------
(* The Snapshot build_snapshot_real hands back, checked on the pipeline run  *)

\* build_snapshot_real has reached its return statement and left it
BuilderLeft == run # Idle /\ pc \notin {"idle", "resolved", "cleared", "published"}

\* C20: build_snapshot_real returns a schema-valid Snapshot and raises nothing for
\* every combination of per-field fetch outcomes, also when the headlines resolve as
\* a failure with an empty list and when the fetch gives between 5 and 50 titles.
C20_BuilderAlwaysReturns ==
    BuilderLeft => /\ snapshot # None
                   /\ error.stage # "build_snapshot"

-----------------------------------------------------------------------------
(* One single-value field of build_snapshot_real: the _safe_value call and   *)
(* the status entry written from its reason.                                 *)

\* field, reason = _safe_value(provider.get_<f>, fallback.get_<f>), then
\* `if reason is None: status[f] = "OK"`; an exception of _safe_value ends the run
ResolveValueField(f, p, d) ==
    /\ rcall = Idle
    /\ rcall' = [fn |-> "build_snapshot_real", field |-> f, p |-> p, d |-> d]
    /\ rret' = _safe_value(p, d)
    /\ build_status' = IF rret'.kind = "raise" THEN << >>
                       ELSE [InitialStatus EXCEPT
                                ![f] = IF rret'.reason = NoReason THEN "OK" ELSE @]
    /\ UNCHANGED <<build_pc, build_no, origin, prev_status>>
    /\ UNCHANGED <<dbVars, chairVars, pipeVars>>
    /\ UNCHANGED <<validatorVars, agentVars, migrationVars, storeVars>>

NextField ==
    \E f \in ValueFields, p \in PrimaryValueOutcomes, d \in DefaultValueOutcomes :
        ResolveValueField(f, p, d)

SpecField == Init /\ [][NextField]_vars

\* the primary fetcher of the field returned a value
PrimaryPresent == rcall # Idle /\ rcall.p.kind = "return" /\ rcall.p.value # None

\* C21: for every single-value field whose primary fetcher returns a present value,
\* a genuine 0.0 included, _safe_value gives that value unchanged with no failure
\* reason whatever the default fetcher would do, and the field's status is OK.
C21_PresentValuePassesThrough ==
    PrimaryPresent
        => /\ rret = Returned(rcall.p.value, NoReason)
           /\ build_status[rcall.field] = "OK"
           /\ \A g \in DOMAIN build_status \ {rcall.field} : build_status[g] = "FAIL"

\* the primary returned 0.0 with a reason attached and the default would have raised
C21_Witness ==
    /\ PrimaryPresent
    /\ rcall.p = Returned(Some(0), "http_status_500")
    /\ rcall.d.kind = "raise"
    /\ rret = Returned(Some(0), NoReason)
    /\ build_status[rcall.field] = "OK"

-----------------------------------------------------------------------------
(* Derived signals: _compute_phase_two_signals.  Numbers are counted in      *)
(* thousandths (103.271 is 103271), so that round(x, 3) is a rounding to a   *)
(* whole number of thousandths.  A headline is its list of words; a token   *)
(* counts when its words occur next to each other in the joined text.        *)

\* n / d rounded to the nearest whole number, halves to the even one, d > 0
RoundHalfEven(n, d) ==
    LET q == n \div d
        r == n % d
    IN  IF 2 * r < d THEN q
        ELSE IF 2 * r > d THEN q + 1
        ELSE IF q % 2 = 0 THEN q ELSE q + 1

\* str.lower() on the words met in headlines
LowerStr(w) ==
    CASE w = "EPS" -> "eps"
      [] w = "Upgrade" -> "upgrade"
      [] w = "Guidance" -> "guidance"
      [] OTHER -> w

RECURSIVE JoinLower(_)
\* " ".join(headlines).lower(), as a list of words
JoinLower(headlines) ==
    IF headlines = << >> THEN << >>
    ELSE [i \in DOMAIN Head(headlines) |-> LowerStr(Head(headlines)[i])]
             \o JoinLower(Tail(headlines))

\* token in headline_text
TokenIn(token, text) ==
    \E i \in 1..(Len(text) - Len(token) + 1) : SubSeq(text, i, i + Len(token) - 1) = token

PositiveTokens ==
    {<<"earnings", "beat">>, <<"guidance", "up">>, <<"estimate", "up">>, <<"eps", "beat">>,
     <<"upgrade">>}

NegativeTokens ==
    {<<"earnings", "miss">>, <<"guidance", "cut">>, <<"estimate", "down">>, <<"eps", "miss">>,
     <<"downgrade">>}

\* float(positive - negative), in thousandths
EarningsScore(headlines) ==
    LET text == JoinLower(headlines)
    IN  1000 * (Cardinality({t \in PositiveTokens : TokenIn(t, text)})
                    - Cardinality({t \in NegativeTokens : TokenIn(t, text)}))

\* float(d.get(key, 0.0))
PctGet(d, key) == IF key \in DOMAIN d THEN d[key] ELSE 0

\* round(kr_avg - us_avg, 3): (kospi + kosdaq) / 2 - (sp500 + nasdaq + dow) / 3
BreadthScore(markets) ==
    RoundHalfEven(3 * (PctGet(markets.kr, "kospi_pct") + PctGet(markets.kr, "kosdaq_pct"))
                      - 2 * (PctGet(markets.us, "sp500_pct") + PctGet(markets.us, "nasdaq_pct")
                                 + PctGet(markets.us, "dow_pct")),
                  6)

\* faulty variant of LiquidityFifths: `float(dxy or 0.0)` and the like, an absent
\* input read as 0.0
LiquidityFifthsZeroed(dxy, real_rate, spread_2_10) ==
    (100000 - (IF dxy # None THEN dxy[1] ELSE 0))
        + 5 * (1500 - (IF real_rate # None THEN real_rate[1] ELSE 0))
        + 10 * (IF spread_2_10 # None THEN spread_2_10[1] ELSE 0)

\* liquidity_score before rounding, in fifths of a thousandth: 0.0, then
\* += (100.0 - dxy) / 5.0, += (1.5 - real_rate), += spread_2_10 * 2.0, each only
\* when its input is not None
LiquidityFifths(dxy, real_rate, spread_2_10) ==
    LET s0 == 0
        s1 == IF dxy # None THEN s0 + (100000 - dxy[1]) ELSE s0
        s2 == IF real_rate # None THEN s1 + 5 * (1500 - real_rate[1]) ELSE s1
        s3 == IF spread_2_10 # None THEN s2 + 5 * (spread_2_10[1] * 2) ELSE s2
    IN  s3

\* _compute_phase_two_signals(headlines, markets, macro_daily, macro_structural)
_compute_phase_two_signals(headlines, markets, macro_daily, macro_structural) ==
    [earnings_signal_score |-> EarningsScore(headlines),
     breadth_signal_score |-> BreadthScore(markets),
     liquidity_signal_score |->
         RoundHalfEven(LiquidityFifths(macro_daily.dxy, macro_structural.real_rate,
                                       macro_daily.spread_2_10), 5),
     note |-> "derived from headlines + markets + macro.daily + macro.structural"]

\* the day's headlines
SignalHeadlines ==
    {<< >>,
     <<<<"EPS", "beat", "lifts", "chipmakers">>, <<"brokers", "downgrade", "banks">>>>,
     <<<<"Guidance", "cut", "at", "automaker">>, <<"quiet", "session">>>>}

\* the day's index changes, in thousandths of a percent
SignalMarkets ==
    {[kr |-> [kospi_pct |-> 0, kosdaq_pct |-> 0],
      us |-> [sp500_pct |-> 0, nasdaq_pct |-> 0, dow_pct |-> 0]],
     [kr |-> [kospi_pct |-> 1250, kosdaq_pct |-> 0 - 400],
      us |-> [sp500_pct |-> 310, nasdaq_pct |-> 0 - 1100, dow_pct |-> 45]]}

\* the USD index, the real rate and the 2s10s spread: absent, or a reading
DxyReadings == {None, Some(100000), Some(103271), Some(98754)}

RealRateReadings == {None, Some(1500), Some(2113), Some(0 - 250)}

SpreadReadings == {None, Some(0), Some(0 - 431), Some(520)}

ComputePhaseTwoSignals(headlines, markets, dxy, real_rate, spread_2_10) ==
    /\ rcall = Idle
    /\ rcall' = [fn |-> "_compute_phase_two_signals", headlines |-> headlines,
                 markets |-> markets, dxy |-> dxy, real_rate |-> real_rate,
                 spread_2_10 |-> spread_2_10]
    /\ rret' = Returned(Some(_compute_phase_two_signals(
                                 headlines, markets,
                                 [dxy |-> dxy, spread_2_10 |-> spread_2_10],
                                 [real_rate |-> real_rate])),
                        NoReason)
    /\ UNCHANGED <<dbVars, chairVars, pipeVars, laterVars>>

NextSignals ==
    \E headlines \in SignalHeadlines, markets \in SignalMarkets, dxy \in DxyReadings,
       real_rate \in RealRateReadings, spread_2_10 \in SpreadReadings :
        ComputePhaseTwoSignals(headlines, markets, dxy, real_rate, spread_2_10)

SpecSignals == Init /\ [][NextSignals]_vars

SignalsComputed == rcall # Idle /\ rcall.fn = "_compute_phase_two_signals"

\* what one input adds to the liquidity score when present, in fifths of a
\* thousandth: (100 - dxy) / 5, 1.5 - real_rate, 2 * spread
TermFifths(name, v) ==
    CASE name = "dxy" -> 100000 - v
      [] name = "real_rate" -> 5 * (1500 - v)
      [] name = "spread_2_10" -> 10 * v

\* the term of an input, zero when the input is absent
Contribution(name) == IF rcall[name] # None THEN TermFifths(name, rcall[name][1]) ELSE 0

\* C22: the liquidity signal is the sum of the terms of those of its three inputs that
\* are present (rounded to three decimals as every signal is), an absent input adding
\* zero; with the USD index, the real rate and the spread all absent it is 0.0
\* exactly, whatever the headlines and the index changes.
C22_LiquidityAdditive ==
    SignalsComputed
        => /\ rret.value[1].liquidity_signal_score
                  = RoundHalfEven(Contribution("dxy") + Contribution("real_rate")
                                      + Contribution("spread_2_10"), 5)
           /\ (rcall.dxy = None /\ rcall.real_rate = None /\ rcall.spread_2_10 = None)
                  => rret.value[1].liquidity_signal_score = 0

\* all three inputs absent on a day with earnings headlines and moving indices
C22_Witness ==
    /\ SignalsComputed
    /\ rcall.dxy = None /\ rcall.real_rate = None /\ rcall.spread_2_10 = None
    /\ rret.value[1].liquidity_signal_score = 0
    /\ rret.value[1].earnings_signal_score # 0
    /\ rret.value[1].breadth_signal_score # 0

-----------------------------------------------------------------------------
(* The status map the persistence steps of a run decide on                   *)

\* status = get_last_snapshot_status() has been executed in this run
StatusRead == pc \in PersistStages \/ status # << >>

-----------------------------------------------------------------------------
(* The chair's majority tag and key points                                   *)

\* position of a tag in the order RISK_ON, NEUTRAL, RISK_OFF
TagIndex(tag) == CHOOSE i \in DOMAIN RegimeTags : RegimeTags[i] = tag

\* the majority tag the returned result reports
ReportedMajority == ChairResult.key_points[1].about

\* C24: for every non-empty stance list the majority tag ChairStub.run chooses has the
\* highest vote count, and among tags tied for the highest count it is the first in
\* the order RISK_ON, NEUTRAL, RISK_OFF.
C24_MajorityFirstHighest ==
    (ChairReturned /\ stances # << >>)
        => /\ ChairResult.key_points[1].kind = "majority"
           /\ ReportedMajority \in Range(RegimeTags)
           /\ \A t \in Range(RegimeTags) :
                  /\ TagCount(stances, t) <= TagCount(stances, ReportedMajority)
                  /\ TagIndex(t) < TagIndex(ReportedMajority)
                         => TagCount(stances, t) < TagCount(stances, ReportedMajority)
           /\ \A i \in DOMAIN ChairResult.disagreements :
                  ChairResult.disagreements[i].majority = ReportedMajority

\* two votes for NEUTRAL and two for RISK_OFF: NEUTRAL is reported
C24_Witness ==
    /\ ChairReturned
    /\ TagsOf(stances) = <<"RISK_OFF", "NEUTRAL", "RISK_OFF", "NEUTRAL">>
    /\ ReportedMajority = "NEUTRAL"

\* the distinct stances that cite an evidence id
StancesCiting(sts, e) == {sts[i] : i \in {j \in DOMAIN sts : e \in Range(sts[j].evidence_ids)}}

\* the shared-evidence entries among the key points
SharedEvidenceOf(kps) == {i \in DOMAIN kps : kps[i].kind = "shared_evidence"}

\* key is the first of keys, in discovery order, of the greatest size
IsFirstMax(keys, key, size(_)) ==
    \E i \in DOMAIN keys :
        /\ keys[i] = key
        /\ \A j \in DOMAIN keys : size(keys[j]) <= size(key)
        /\ \A j \in 1..(i - 1) : size(keys[j]) < size(key)

\* the key-point list starts with the majority-tag point and has 1 to 3 entries
KeyPointsFramed(kps) ==
    /\ Len(kps) >= 1 /\ Len(kps) <= 3
    /\ kps[1].kind = "majority"
    /\ Cardinality(SharedEvidenceOf(kps)) <= 1

-----------------------------------------------------------------------------
(* Row writes: upsert_market_daily, upsert_market_flow_daily and             *)
(* upsert_daily_macro on one database file, one statement at a time.         *)

MaxStoreDate == 2

StoreDates == 1..MaxStoreDate

UpsertFunctions == {"upsert_market_daily", "upsert_market_flow_daily", "upsert_daily_macro"}

\* the measured columns each INSERT names (created_at, the time of the write, aside)
MeasuredColumns(fn) ==
    CASE fn = "upsert_market_daily" ->
             {"kospi_pct", "kosdaq_pct", "sp500_pct", "nasdaq_pct", "dow_pct", "usdkrw",
              "usdkrw_pct", "us10y", "vix"}
      [] fn = "upsert_market_flow_daily" -> _ALLOWED_FLOW_COLUMNS
      [] fn = "upsert_daily_macro" ->
             {"us10y", "us2y", "spread_2_10", "vix", "dxy", "usdkrw", "fed_funds_rate",
              "real_rate"}

\* the parameters a caller may leave absent: float | None in the signature
NullableColumns(fn) ==
    CASE fn = "upsert_market_daily" -> {"usdkrw_pct", "us10y", "vix"}
      [] OTHER -> MeasuredColumns(fn) \ {"foreign_net", "us10y"}

\* the keyword arguments of a call: every figure measured, or every nullable one absent
StoreRows(fn) ==
    { [c \in MeasuredColumns(fn) |-> Some(1)],
      [c \in MeasuredColumns(fn) |-> IF c \in NullableColumns(fn) THEN None ELSE Some(2)] }

\* faulty variant of UpsertRow: on a conflict an absent value leaves the stored one
UpsertRowCoalesce(rows, date, cols) ==
    IF \E i \in DOMAIN rows : rows[i].date = date
    THEN [i \in DOMAIN rows |->
             IF rows[i].date = date
             THEN [date |-> date,
                   cols |-> [c \in DOMAIN cols |->
                                IF cols[c] = None THEN rows[i].cols[c] ELSE cols[c]]]
             ELSE rows[i]]
    ELSE Append(rows, [date |-> date, cols |-> cols])

\* INSERT INTO t (...) VALUES (...) ON CONFLICT(date) DO UPDATE SET c = excluded.c for
\* every measured column c: the row of that date is rewritten in place, or a row is added
UpsertRow(rows, date, cols) ==
    IF \E i \in DOMAIN rows : rows[i].date = date
    THEN [i \in DOMAIN rows |->
             IF rows[i].date = date THEN [date |-> date, cols |-> cols] ELSE rows[i]]
    ELSE Append(rows, [date |-> date, cols |-> cols])

StoreFrame ==
    UNCHANGED <<resolverVars, dbVars, chairVars, pipeVars, validatorVars, agentVars,
                statusVars, migrationVars>>

\* upsert_<table>(date=..., ...): created_at = _utc_now_iso(), then init_db(db_path)
BeginUpsert(fn, date, cols) ==
    /\ upsert_pc \in {"idle", "returned", "raised", "abandoned"}
    /\ upsert_call = Idle \/ upsert_call.fn = fn
    /\ upsert_call' = [fn |-> fn, date |-> date, cols |-> cols, before |-> committed,
                       at |-> "none"]
    /\ upsert_pc' = "init_db"
    /\ UNCHANGED <<committed, conn>>
    /\ StoreFrame

\* init_db(db_path): its own connection; it creates and alters tables and touches no
\* row of these three
InitDbForUpsert(fails) ==
    /\ upsert_pc = "init_db"
    /\ upsert_pc' = IF fails THEN "raised" ELSE "connect"
    /\ upsert_call' = [upsert_call EXCEPT !.at = IF fails THEN "init_db" ELSE @]
    /\ UNCHANGED <<committed, conn>>
    /\ StoreFrame

\* with connect(db_path) as conn: sqlite3.connect and the two PRAGMAs; the connection
\* reads what is committed
ConnectStore(fails) ==
    /\ upsert_pc = "connect"
    /\ conn' = IF fails THEN None ELSE Some(committed)
    /\ upsert_pc' = IF fails THEN "raised" ELSE "connected"
    /\ upsert_call' = [upsert_call EXCEPT !.at = IF fails THEN "connect" ELSE @]
    /\ UNCHANGED committed
    /\ StoreFrame

\* faulty variant of ExecuteUpsert: the statement is committed as it is executed
ExecuteUpsertAutocommit(fails) ==
    /\ upsert_pc = "connected"
    /\ conn' = IF fails THEN None
               ELSE Some(UpsertRow(conn[1], upsert_call.date, upsert_call.cols))
    /\ committed' = IF fails THEN committed
                    ELSE UpsertRow(committed, upsert_call.date, upsert_call.cols)
    /\ upsert_pc' = IF fails THEN "raised" ELSE "executed"
    /\ upsert_call' = [upsert_call EXCEPT !.at = IF fails THEN "execute" ELSE @]
    /\ StoreFrame

\* conn.execute(INSERT ... ON CONFLICT ...): the statement opens the connection's
\* transaction and writes in it; a statement that raises changes nothing and the
\* finally clause closes the connection
ExecuteUpsert(fails) ==
    /\ upsert_pc = "connected"
    /\ conn' = IF fails THEN None
               ELSE Some(UpsertRow(conn[1], upsert_call.date, upsert_call.cols))
    /\ upsert_pc' = IF fails THEN "raised" ELSE "executed"
    /\ upsert_call' = [upsert_call EXCEPT !.at = IF fails THEN "execute" ELSE @]
    /\ UNCHANGED committed
    /\ StoreFrame

\* conn.commit() after the yield, conn.close() in the finally clause: a commit that
\* raises leaves the transaction to be discarded by the close
CommitUpsert(fails) ==
    /\ upsert_pc = "executed"
    /\ committed' = IF fails THEN committed ELSE conn[1]
    /\ conn' = None
    /\ upsert_pc' = IF fails THEN "raised" ELSE "returned"
    /\ upsert_call' = [upsert_call EXCEPT !.at = IF fails THEN "commit" ELSE @]
    /\ StoreFrame

\* the process is stopped while the upsert is under way: the connection is gone and
\* with it whatever it had not committed
AbandonRun ==
    /\ upsert_pc \in {"init_db", "connect", "connected", "executed"}
    /\ conn' = None
    /\ upsert_call' = [upsert_call EXCEPT !.at = upsert_pc]
    /\ upsert_pc' = "abandoned"
    /\ UNCHANGED committed
    /\ StoreFrame

NextStore ==
    \/ \E fn \in UpsertFunctions, date \in StoreDates :
           \E cols \in StoreRows(fn) : BeginUpsert(fn, date, cols)
    \/ \E fails \in BOOLEAN : InitDbForUpsert(fails)
    \/ \E fails \in BOOLEAN : ConnectStore(fails)
    \/ \E fails \in BOOLEAN : ExecuteUpsert(fails)
    \/ \E fails \in BOOLEAN : CommitUpsert(fails)
    \/ AbandonRun

SpecStore == Init /\ [][NextStore]_vars

\* the positions of the rows of a date
RowsAt(rows, date) == {i \in DOMAIN rows : rows[i].date = date}

\* the stored values of a date: one entry for every row of that date
ValuesAt(rows, date) == {rows[i].cols : i \in RowsAt(rows, date)}

\* C26: after any sequence of upsert calls on a per-topic table the table holds at most
\* one row per date; once an upsert for date d has returned, the row of d holds exactly
\* the values of that upsert, an absent value stored as NULL over whatever was there,
\* and the rows of all other dates are as they were before it.
C26_LastUpsertPerDate ==
    /\ \A d \in StoreDates : Cardinality(RowsAt(committed, d)) <= 1
    /\ (upsert_pc = "returned"
        /\ upsert_call.fn \in {"upsert_market_flow_daily", "upsert_daily_macro"})
           => /\ ValuesAt(committed, upsert_call.date) = {upsert_call.cols}
              /\ \A d \in StoreDates \ {upsert_call.date} :
                     ValuesAt(committed, d) = ValuesAt(upsert_call.before, d)

\* a daily_macro row of measured figures is written again with the nullable figures
\* absent while another date holds a row
C26_Witness ==
    /\ upsert_pc = "returned"
    /\ upsert_call.fn = "upsert_daily_macro"
    /\ upsert_call.date = 1
    /\ upsert_call.cols["vix"] = None
    /\ ValuesAt(upsert_call.before, 1) = {[c \in MeasuredColumns("upsert_daily_macro") |-> Some(1)]}
    /\ ValuesAt(upsert_call.before, 2) # {}
    /\ \A i \in RowsAt(committed, 1) : committed[i].cols["vix"] = None

\* C27: every row write is atomic: an upsert that has returned has committed the
\* complete row; while it is under way, and after it raised or the run was abandoned
\* before the commit, the committed table is exactly as it was before the call.
C27_RowWriteAtomic ==
    upsert_call # Idle
        => /\ upsert_pc # "returned" => committed = upsert_call.before
           /\ upsert_pc = "returned"
                  => /\ \E i \in DOMAIN committed :
                            committed[i] = [date |-> upsert_call.date,
                                            cols |-> upsert_call.cols]
                     /\ \A i \in DOMAIN committed :
                            \/ committed[i].date = upsert_call.date
                            \/ \E j \in DOMAIN upsert_call.before :
                                   upsert_call.before[j] = committed[i]

\* the run is stopped after the INSERT and before the commit, over a stored row that
\* the statement had rewritten inside the connection
C27_Witness ==
    /\ upsert_pc = "abandoned"
    /\ upsert_call.at = "executed"
    /\ upsert_call.fn = "upsert_market_daily"
    /\ ValuesAt(committed, upsert_call.date) # {}
    /\ upsert_call.cols \notin ValuesAt(committed, upsert_call.date)

-----------------------------------------------------------------------------
(* safe_upsert_market_flow_daily over a history of nightly runs, with re-runs *)
(* and backfills of dates around the twentieth                               *)

MaxLate == 1

\* the dates a re-run or a backfill writes once the nightly history stands
BackfillDates == (Window20 - 1)..(Window20 + MaxLate)

\* what the caller passes: the nightly runs store one flow figure a day until
\* Window20 rows stand; after that any of the dates around the window is written,
\* with a figure or without
FlowInputs(table) ==
    IF Cardinality(DOMAIN table) < Window20
    THEN {<<Cardinality(DOMAIN table) + 1, Some(1)>>}
    ELSE BackfillDates \X {None, Some(3)}

\* safe_upsert_market_flow_daily(date=..., foreign_net=...): the upsert with both
\* rolling columns absent, then update_market_flow_rollings(date); "rolling" is a
\* fault inside the second, "insert" one inside the first
SafeUpsertFlowFor(date, foreign_net, fault) ==
    /\ <<date, foreign_net>> \in FlowInputs(market_flow_daily)
    /\ LET upserted == Upsert(market_flow_daily, date, FlowRow(foreign_net, None, None))
       IN  market_flow_daily' =
               CASE fault = "none" -> update_market_flow_rollings(upserted, date)
                 [] fault = "rolling" -> upserted
                 [] OTHER -> market_flow_daily
    /\ roll_call' = [fn |-> "safe_upsert_market_flow_daily", date |-> date,
                     foreign_net |-> foreign_net, fault |-> fault]
    /\ roll_ret' = safe_upsert(UpsertOutcome(fault))
    /\ UNCHANGED <<resolverVars, chairVars, pipeVars, laterVars>>

NextRolling ==
    \E date \in 1..(Window20 + MaxLate), v \in {None, Some(1), Some(3)},
       fault \in {"none", "insert", "rolling"} : SafeUpsertFlowFor(date, v, fault)

SpecRolling == Init /\ [][NextRolling]_vars

\* the rows of a table up to and including a date
UpTo(table, date) == [d \in {e \in DOMAIN table : e <= date} |-> table[d]]

\* the rolling sum over the n most recent rows up to and including a date: NULL when
\* that window holds fewer than n non-null values
RollingUpTo(table, date, n) ==
    LET recent == RecentValues(UpTo(table, date), "foreign_net", n)
    IN  IF NonNullCount(recent) < n THEN None ELSE Some(SeqSum(recent))

\* C30: after safe_upsert_market_flow_daily for date d the foreign_20d and foreign_60d
\* stored on row d are the rolling sums of foreign_net over the 20 and the 60 most
\* recent rows up to and including d (NULL when the window holds fewer non-null values
\* than its size), also when d is not the latest date of the table.
C30_RollingUpToDate ==
    (roll_call # Idle /\ roll_call.fault = "none")
        => LET row == market_flow_daily[roll_call.date]
           IN  /\ row.foreign_20d = RollingUpTo(market_flow_daily, roll_call.date, Window20)
               /\ row.foreign_60d = RollingUpTo(market_flow_daily, roll_call.date, Window60)

-----------------------------------------------------------------------------
(* The rule-based stub agents and validate_stances.  Figures are counted in  *)
(* thousandths, as in _compute_phase_two_signals.                            *)

\* the agents scripts/run_local.py seats beside the four of AgentName
SignalAgents == {"earnings", "breadth", "liquidity"}

\* the members AgentName has: the four schemas/stance.py declares, or those and the
\* three that the stubs and scripts/run_local.py name
AgentNameEnums == {AgentNames, AgentNames \cup SignalAgents}

\* EarningsStub.run(snapshot)
EarningsStub(snap) ==
    LET derived_score == IF snap.phase_two_signals # None
                         THEN snap.phase_two_signals[1].earnings_signal_score ELSE 0
        regime == IF derived_score <= 0 - 1000 THEN "RISK_OFF"
                  ELSE IF derived_score >= 1000 \/ snap.markets.kospi_pct >= 1000
                       THEN "RISK_ON" ELSE "NEUTRAL"
    IN  [agent_name |-> "earnings", regime_tag |-> regime,
         evidence_ids |-> <<"snapshot.phase_two_signals.earnings_signal_score",
                            "snapshot.news_headlines", "snapshot.market_summary.note">>,
         core_claims |->
             CASE regime = "RISK_OFF" ->
                      <<Claim("earnings: downgrades accumulate", 21),
                        Claim("earnings: estimates may slow", 21),
                        Claim("earnings: valuation pressure", 26)>>
               [] regime = "RISK_ON" ->
                      <<Claim("earnings: upgrades prevail", 24),
                        Claim("earnings: estimates improving", 20),
                        Claim("earnings: gains are justified", 26)>>
               [] OTHER ->
                      <<Claim("earnings: no clear direction", 22),
                        Claim("earnings: signals are mixed", 20),
                        Claim("earnings: stay neutral", 23)>>]

\* BreadthStub.run(snapshot): spread >= 1.2 is kospi_pct + kosdaq_pct >= 2.4 when the
\* signals are absent
BreadthStub(snap) ==
    LET twice == IF snap.phase_two_signals # None
                 THEN 2 * snap.phase_two_signals[1].breadth_signal_score
                 ELSE snap.markets.kospi_pct + snap.markets.kosdaq_pct
        vix == snap.markets.vix
        regime == IF twice >= 2400 /\ vix < 25000 THEN "RISK_ON"
                  ELSE IF twice <= 0 - 2400 \/ vix >= 30000 THEN "RISK_OFF"
                       ELSE "NEUTRAL"
    IN  [agent_name |-> "breadth", regime_tag |-> regime,
         evidence_ids |-> <<"snapshot.phase_two_signals.breadth_signal_score",
                            "snapshot.markets.volatility.vix",
                            "snapshot.market_summary.note">>,
         core_claims |->
             CASE regime = "RISK_ON" ->
                      <<Claim("breadth: diffusion leads", 25),
                        Claim("breadth: internals improve", 26),
                        Claim("breadth: trend following works", 25)>>
               [] regime = "RISK_OFF" ->
                      <<Claim("breadth: diffusion weakens", 25),
                        Claim("breadth: volatility regime adverse", 24),
                        Claim("breadth: tighten stops", 25)>>
               [] OTHER ->
                      <<Claim("breadth: signals coexist", 21),
                        Claim("breadth: no clear edge", 18),
                        Claim("breadth: keep balance", 23)>>]

\* LiquidityStub.run(snapshot)
LiquidityStub(snap) ==
    LET dxy == IF snap.macro # None THEN snap.macro[1].dxy ELSE None
        real_rate == IF snap.macro # None THEN snap.macro[1].real_rate ELSE None
        spread_2_10 == IF snap.macro # None THEN snap.macro[1].spread_2_10 ELSE None
        derived_score == IF snap.phase_two_signals # None
                         THEN snap.phase_two_signals[1].liquidity_signal_score ELSE 0
        risk_off_signal ==
            \/ derived_score <= 0 - 800
            \/ dxy # None /\ dxy[1] >= 105000
            \/ real_rate # None /\ real_rate[1] >= 2200
            \/ spread_2_10 # None /\ spread_2_10[1] < 0 - 200
        risk_on_signal ==
            \/ derived_score >= 800
            \/ /\ dxy # None /\ dxy[1] <= 100000
               /\ real_rate = None \/ real_rate[1] <= 1500
               /\ spread_2_10 = None \/ spread_2_10[1] >= 0
        regime == IF risk_off_signal THEN "RISK_OFF"
                  ELSE IF risk_on_signal THEN "RISK_ON" ELSE "NEUTRAL"
    IN  [agent_name |-> "liquidity", regime_tag |-> regime,
         evidence_ids |-> <<"snapshot.phase_two_signals.liquidity_signal_score",
                            "snapshot.macro.daily.dxy",
                            "snapshot.macro.structural.real_rate">>,
         core_claims |->
             CASE regime = "RISK_OFF" ->
                      <<Claim("liquidity: dollar and real rates weigh", 29),
                        Claim("liquidity: conditions are tight", 30),
                        Claim("liquidity: cut rate-sensitive assets", 25)>>
               [] regime = "RISK_ON" ->
                      <<Claim("liquidity: dollar pressure eases", 26),
                        Claim("liquidity: supportive of recovery", 24),
                        Claim("liquidity: room to add", 29)>>
               [] OTHER ->
                      <<Claim("liquidity: indicators are mixed", 25),
                        Claim("liquidity: no confirmation", 25),
                        Claim("liquidity: balance the risk", 23)>>]

\* <Agent>Stub().run(snapshot): AgentName.<AGENT> raises AttributeError when the enum
\* has no such member, else the Stance is built
StubRun(agent, enum, snap) ==
    IF agent \notin enum THEN Raised("AttributeError")
    ELSE Returned(Some(CASE agent = "earnings" -> EarningsStub(snap)
                         [] agent = "breadth" -> BreadthStub(snap)
                         [] agent = "liquidity" -> LiquidityStub(snap)
                         [] OTHER -> AgentRun(agent, snap)), NoReason)

\* validate_stances(stances) under the given AgentName members: TRUE when it raises nothing
validate_stances_in(sts, names) ==
    /\ \A i \in DOMAIN sts : StanceValidFor(sts[i], names) /\ _assert_evidence_ids(sts[i])
    /\ Len(sts) >= 1
    /\ \A i \in DOMAIN sts : Len(sts[i].core_claims) <= MaxItems

\* the derived signals of a snapshot: absent, quiet, or each at a strong reading
StubSignals ==
    {None} \cup
    {Some([earnings_signal_score |-> e, breadth_signal_score |-> b,
           liquidity_signal_score |-> l]) :
        e \in {0 - 1000, 0, 1000}, b \in {0 - 1200, 1200}, l \in {0 - 800, 0}}

\* dxy, real_rate and spread_2_10 of the macro block, or no macro block
StubMacros ==
    {None, Some([dxy |-> None, real_rate |-> None, spread_2_10 |-> None]),
     Some([dxy |-> Some(99000), real_rate |-> Some(1500), spread_2_10 |-> Some(0)]),
     Some([dxy |-> Some(105000), real_rate |-> Some(1000), spread_2_10 |-> Some(100)])}

\* a snapshot as the stubs read it
StubSnapshot(signals, macro, kospi_pct, vix, note) ==
    [phase_two_signals |-> signals, macro |-> macro,
     markets |-> [kospi_pct |-> kospi_pct, kosdaq_pct |-> 1500, vix |-> vix],
     market_summary |-> [usdkrw |-> 0, kospi_change_pct |-> 0, note |-> note],
     flow_summary |-> [foreign_net |-> 0, institution_net |-> 0, retail_net |-> 0,
                       note |-> note],
     news_headlines |-> <<"risk headline">>]

\* one stub agent runs in place of a failed opinion generator and validate_stances
\* reads what it produced
RunStubAgent(agent, enum, snap) ==
    /\ vcall = Idle
    /\ vcall' = [fn |-> "stub_run", agent |-> agent, enum |-> enum, snapshot |-> snap]
    /\ vret' = LET out == StubRun(agent, enum, snap)
               IN  [kind |-> out.kind, reason |-> out.reason, stance |-> out.value,
                    validated |-> /\ out.kind = "return"
                                  /\ validate_stances_in(<<out.value[1]>>, enum)]
    /\ UNCHANGED <<resolverVars, dbVars, chairVars, pipeVars>>
    /\ UNCHANGED <<agentVars, statusVars, migrationVars, storeVars>>

NextStubs ==
    \E agent \in AgentNames \cup SignalAgents, enum \in AgentNameEnums,
       signals \in StubSignals, macro \in StubMacros, kospi_pct \in {0, 1000},
       vix \in {20000, 30000}, note \in {"fetch_failed", "ok"} :
        RunStubAgent(agent, enum, StubSnapshot(signals, macro, kospi_pct, vix, note))

SpecStubs == Init /\ [][NextStubs]_vars

-----------------------------------------------------------------------------
(* The chair's result on schema-valid stance lists                           *)

\* C28: for every non-empty list of schema-valid stances ChairStub.run raises nothing
\* and returns a bounded result, whatever the lengths of the claims and however many
\* agents share a tag, a claim or an evidence id: every key point text is within the
\* schema's length limit, every source list has 1 to 5 entries, and the result passes
\* validate_committee_result.
C28_BoundedResult ==
    (chair # Idle /\ stances # << >> /\ \A i \in DOMAIN stances : StanceValid(stances[i]))
        => /\ chair.kind = "return"
           /\ \A i \in DOMAIN ChairResult.key_points :
                  /\ ChairResult.key_points[i].len <= MaxShortText
                  /\ Len(ChairResult.key_points[i].sources) \in 1..MaxSources
           /\ \A i \in DOMAIN ChairResult.disagreements :
                  Len(ChairResult.disagreements[i].minority_agents) \in 1..MaxSources
           /\ validate_committee_result(ChairResult)

====
